---------------------------- MODULE Spec2Model ----------------------------
(***************************************************************************)
(* Verification model of the flannel network plugin.                       *)
(*                                                                         *)
(* The module holds one state machine per subsystem, each with its own     *)
(* specification over the shared variable tuple:                           *)
(*   SpecPool   the per-host-subnet IP pool (etcdPool) of several hosts    *)
(*              that share one KV prefix, with its reservation watcher     *)
(*   SpecDriver the driver of several hosts: address-space leases, the     *)
(*              network controller's backend config, bridges, endpoints    *)
(*   SpecFwmarks the fwmarks of one network, requested by several hosts    *)
(*   SpecStore  the sharded distributed store of several hosts, with its   *)
(*              watcher                                                    *)
(*   SpecNameservers the nameservers of one driver, asked for by several   *)
(*              goroutines at once                                         *)
(*   SpecService one service of a driver and the calls that set its fields *)
(* A subsystem's specification leaves the variables of the other           *)
(* subsystems at their initial value.                                      *)
(***************************************************************************)
EXTENDS Integers, Sequences, FiniteSets, TLC

VARIABLES
  \* ---- IP pool (src/unnamed/part_003, package ipam) ----
  kv,           \* KV reservation keys of the host subnet: ip -> reservation
  reservedIPs,  \* etcdPool.reservedIPs of each host: ip -> reservation
  unusedIPs,    \* etcdPool.unusedIPs of each host: ip -> minutes since freedAt
  watchQ,       \* watch events not yet handled by each host's watcher
  pc,           \* position of the call that holds each pool's lock
  call,         \* arguments and locals of that call, and its result on return
  calls,        \* number of pool calls made so far, on all hosts
  holders,      \* history: per ip, the AllocateIP returns since the key was last deleted
  relAt,        \* history: per host and ip, minutes since the last successful ReleaseIP
  \* ---- driver (package driver, flannel_network, ipam address space) ----
  asKV,         \* address-space lease keys: subnet -> flannelID
  cfg,          \* backend config keys: flannelID -> Config.Network
  cfgLatest,    \* per flannelID: the config key's ModRevision is the store's revision
  networks,     \* d.networks of each host: flannelID -> networkSubnet of its network
  bridges,      \* per host: the flannelIDs whose bridge, route and iptables rules exist
  endpoints,    \* network.endpoints of each host's networks
  veths,        \* per host and flannelID: the endpoints whose veth pair exists
  dpc,          \* position of the driver call or event handler running on each host
  dcall,        \* arguments and locals of that call, and its result on return
  dcalls,       \* number of driver calls and events handled so far, on all hosts
  granted,      \* history: per subnet, the flannelIDs told Success since the key's deletion
  pools,        \* history: per flannelID, <<host, Pool>> of the successful RequestPool
                \* calls since a network-removed event of the flannelID was last handled
  pids,         \* per host, the flannelIDs whose network has the pid of its daemon
  vnis,         \* per host and flannelID: the VNIs of the Network objects whose Init
                \* returned nil and that were not deleted, the one in d.networks last
  \* ---- fwmarks (package service_lb) ----
  fwList,       \* KV keys list/<fwmark>: fwmark -> serviceID
  fwBySvc,      \* KV keys by-service/<serviceID>: serviceID -> fwmark
  fwCrc,        \* the CRC32 fwmark of "<serviceID>-<networkID>", per service
  fpc,          \* position of the fwmarks call running on each host
  fcall,        \* arguments and locals of that call, and its result on return
  fcalls,       \* number of fwmarks calls made so far, on all hosts
  \* ---- sharded distributed store (package etcd) ----
  skv,          \* KV keys <shardKey>/<itemID>: shard -> item -> value
  sdata,        \* shardedData of each host's store: shard -> item -> value
  sflat,        \* data of each host's store, the flat index: item -> value
  itemToShardKey, \* itemToShardKey of each host's store: item -> shard key
  sq,           \* watch events not yet handled by each store's watcher
  sphase,       \* each store: "new" after the constructor, "loaded" after the sync of
                \* Init, "watching" after Init has started the watch and returned
  scalls,       \* number of store calls made so far, on all hosts
  slast,        \* history: host, arguments and outcome of the call of a store, when the
                \* step just taken was one
  struth,       \* history: per host, its latest call was a Sync (whose truth is then its
                \* local shard in memory) and no other host has changed KV since
  swatch,       \* history: the event of a store's own shard that a watcher handled in
                \* the step just taken
  \* ---- nameservers of one driver (flannelDriver.getOrAddNameserver) ----
  nameserversBySandboxKey, \* d.nameserversBySandboxKey: sandbox key -> nameserver
  nsActivations, \* per sandbox key, the Activate calls made on each nameserver created for it
  npc,          \* position of each goroutine that asks for a nameserver
  ncall,        \* arguments and locals of its getOrAddNameserver call, and the result
  ncalls,       \* number of getOrAddNameserver calls made so far
  \* ---- one service of the driver (common.service) ----
  service,      \* the fields of the service
  svlast,       \* history: the call that returned in the step just taken and what it raised
  svpending,    \* per setter: the locals of the call that has unlocked and not yet returned
  initOwed,     \* history: times the service went from not initialized to initialized
                \* minus the OnInitialized events raised
  svcalls       \* number of calls made on the service so far

poolVars == <<kv, reservedIPs, unusedIPs, watchQ, pc, call, calls, holders, relAt>>
driverVars == <<asKV, cfg, cfgLatest, networks, bridges, endpoints, veths,
                dpc, dcall, dcalls, granted, pools, pids, vnis>>

fwVars == <<fwList, fwBySvc, fwCrc, fpc, fcall, fcalls>>
storeVars == <<skv, sdata, sflat, itemToShardKey, sq, sphase, scalls, slast,
               struth, swatch>>
nsVars == <<nameserversBySandboxKey, nsActivations, npc, ncall, ncalls>>
serviceVars == <<service, svlast, svpending, initOwed, svcalls>>

vars == <<poolVars, driverVars, fwVars, storeVars, nsVars, serviceVars>>
(* what a step of one subsystem leaves alone *)
outsidePool == <<driverVars, fwVars, storeVars, nsVars, serviceVars>>
outsideDriver == <<poolVars, fwVars, storeVars, nsVars, serviceVars>>
outsideFwmarks == <<poolVars, driverVars, storeVars, nsVars, serviceVars>>
outsideStore == <<poolVars, driverVars, fwVars, nsVars, serviceVars>>
outsideNameservers == <<poolVars, driverVars, fwVars, storeVars, serviceVars>>
outsideService == <<poolVars, driverVars, fwVars, storeVars, nsVars>>

---------------------------------------------------------------------------
(* Bounds of the pool model *)
NumIPs == 2
MaxQueue == 1
MaxTries == 1
MaxCalls == 2

(* etcdPool.getAvailableUnusedIPs: value.Add(5 * time.Minute).Before(time.Now()) *)
ReuseDelay == 5

Hosts == {"h1", "h2"}
IPs == 1..NumIPs
MACs == {"m1"}
NoMac == ""

ReservationTypeReserved == "reserved"
ReservationTypeContainerIP == "container-ip"
ReservationTypeServiceVIP == "service-vip"
ReservationTypes ==
  {ReservationTypeReserved, ReservationTypeContainerIP, ReservationTypeServiceVIP}

(* A map entry that is absent. *)
NoRes == [type |-> "none", mac |-> NoMac]
reservation(t, m) == [type |-> t, mac |-> m]
(* unusedIPs has no entry for the ip *)
Absent == -1
(* time.Now() - freedAt, kept up to the first value beyond ReuseDelay *)
Fresh == 0
TickStep == ReuseDelay + 1
Older(t) == IF t = Absent THEN Absent
            ELSE IF t + TickStep > ReuseDelay THEN ReuseDelay + 1 ELSE t + TickStep

NoCall == [op |-> "none", ip |-> 0, mac |-> NoMac, type |-> "none", random |-> FALSE,
           tries |-> 0, pre |-> FALSE,
           ok |-> FALSE, path |-> "none", forced |-> FALSE, recent |-> FALSE]

Min(S) == CHOOSE x \in S : \A y \in S : x <= y

---------------------------------------------------------------------------
(* KV transactions of the pool (package ipam, pool_etcd) *)

(* Watch events of one transaction: every host's watcher, the writer's     *)
(* own included, gets one event per touched ip. The events of the ip key   *)
(* and of its mac key are handled alike (both by keyParts[0]).             *)
Emit(q, evs) == [h \in Hosts |-> q[h] \o evs]
(* room in the queues of the watchers that can run: a watcher waits for    *)
(* the pool lock while a call of its pool holds it                         *)
QueueRoom(n) ==
  \A h \in Hosts : pc[h] = "idle" => Len(watchQ[h]) + n <= MaxQueue

(* getReservations: the reservations under the pool's prefix *)
getReservations == kv

(* syncIPs: reload reservedIPs from KV, every other ip is unused since now *)
syncIPsUnused == [ip \in IPs |-> IF kv[ip] = NoRes THEN Fresh ELSE Absent]

(* getAvailableUnusedIPs without its re-sync: the ips freed more than      *)
(* ReuseDelay ago, or, when there are none, every unused ip                *)
(* candidates chosen without looking at freedAt *)
AgedOrNot(u) == {ip \in IPs : u[ip] /= Absent}

Aged(u) == {ip \in IPs : u[ip] /= Absent /\ u[ip] > ReuseDelay}
AllUnused(u) == {ip \in IPs : u[ip] /= Absent}
availableUnusedIPs(u) == IF Aged(u) /= {} THEN Aged(u) ELSE AllUnused(u)

(* getNextAvailableIP: the numerically smallest candidate that the pool    *)
(* does not hold as reserved                                               *)
getNextAvailableIP(avail, res) == Min({ip \in avail : res[ip] = NoRes})
hasNextAvailableIP(avail, res) == {ip \in avail : res[ip] = NoRes} /= {}

(* reserveIP: Txn If(CreateRevision(key) = 0) Then(Put(key, type), Put(macKey, mac)) *)
reserveIPSucceeds(ip) == kv[ip] = NoRes

(* allocateReservedIPForContainer / allocateReservedIPForService: the      *)
(* conditions of the re-reserve transactions, tried in this order          *)
RereserveSteps == <<"rrA", "rrB", "rrC", "rrD">>
rereserveCond(step, ip, mac) ==
  CASE step = "rrA" -> kv[ip] = NoRes
    [] step = "rrB" -> kv[ip].type = ReservationTypeReserved /\ mac /= NoMac /\ kv[ip].mac = mac
    [] step = "rrC" -> kv[ip].type = ReservationTypeReserved /\ kv[ip].mac = NoMac
    [] step = "rrD" -> kv[ip].type = ReservationTypeReserved
(* a re-reserve step that leaves out the transaction for an entry without MAC *)
nextRereserveStepSkipping(step) ==
  CASE step = "rrA" -> "rrB"
    [] step = "rrB" -> "rrD"
    [] step = "rrC" -> "rrD"
    [] step = "rrD" -> "pick"

(* the transaction tried after a failed one; after the last one the call   *)
(* goes on with the free-ip path                                           *)
nextRereserveStep(step) ==
  CASE step = "rrA" -> "rrB"
    [] step = "rrB" -> "rrC"
    [] step = "rrC" -> "rrD"
    [] step = "rrD" -> "pick"

(* a watcher that leaves a deleted reservation in memory *)
forgetNothing(res, ip) == res

(* watchForIPUsageChanges, DELETE: delete(p.reservedIPs, ipStr) *)
forgetReservation(res, ip) == [res EXCEPT ![ip] = NoRes]

(* releaseReservation: Txn If(Value(key) = reservation.type) Then(Delete); *)
(* an entry that is already gone counts as released                        *)
releaseSucceeds(ip, r) == kv[ip] = NoRes \/ kv[ip].type = r.type

---------------------------------------------------------------------------
(* Callers of the pool *)

(* flannelDriver.RequestAddress: container-ip when both an address and a   *)
(* MAC are given, else reserved; always random. The callers modelled are   *)
(* the IPAM pass (no address, no MAC) and the container start (address and *)
(* MAC). Service VIPs are asked for with type service-vip, no MAC, no      *)
(* preferred ip and in numerical order.                                    *)
RequestAddressCalls ==
  { [ip |-> i, mac |-> m,
     type |-> IF i /= 0 /\ m /= NoMac THEN ReservationTypeContainerIP
              ELSE ReservationTypeReserved,
     random |-> TRUE] : <<i, m>> \in {<<0, NoMac>>} \cup (IPs \X MACs) }
ServiceVIPCalls ==
  { [ip |-> 0, mac |-> NoMac, type |-> ReservationTypeServiceVIP, random |-> FALSE] }
AllocRequests == RequestAddressCalls \cup ServiceVIPCalls

(* AllocateIP's condition for trying the preferred ip first *)
usesPreferred(req) ==
  /\ req.ip /= 0
  /\ \/ (req.mac /= NoMac /\ req.type = ReservationTypeContainerIP)
     \/ req.type = ReservationTypeServiceVIP

(* every usable ip is unused on h and was freed at most ReuseDelay ago *)
AllRecentlyFreed(h) ==
  \A ip \in IPs : unusedIPs[h][ip] /= Absent /\ unusedIPs[h][ip] < ReuseDelay

(* the call's return statement is reached; the lock is still held *)
Finish(h, ret) ==
  /\ pc' = [pc EXCEPT ![h] = "ret"]
  /\ call' = [call EXCEPT ![h] = ret]

AllocRet(h, c, ok, ip, path, forced) ==
  [NoCall EXCEPT !.op = "alloc", !.ok = ok, !.ip = ip, !.path = path,
                 !.forced = forced, !.pre = c.pre, !.tries = c.tries,
                 !.recent = ok /\ relAt[h][ip] /= Absent]

(* the deferred Unlock runs and the call returns *)
Return(h) ==
  /\ UNCHANGED outsidePool
  /\ pc[h] = "ret"
  /\ UNCHANGED calls
  /\ pc' = [pc EXCEPT ![h] = "idle"]
  /\ call' = [call EXCEPT ![h] = NoCall]
  /\ UNCHANGED <<kv, reservedIPs, unusedIPs, watchQ, holders, relAt>>

(* a call that returns the preferred ip whatever the transaction said *)
resultIgnored(step, ip, mac) == ip \in IPs

(* AllocateIP, preferred ip: if result.Success *)
resultSuccess(step, ip, mac) == rereserveCond(step, ip, mac)

(* AllocateIP, preferred ip: one re-reserve transaction of the call c *)
ReservedTxn(h, c, step) ==
  LET r == reservation(c.type, c.mac)
  IN IF resultSuccess(step, c.ip, c.mac)
     THEN /\ QueueRoom(1)
          /\ kv' = [kv EXCEPT ![c.ip] = r]
          /\ watchQ' = Emit(watchQ, <<[type |-> "PUT", ip |-> c.ip]>>)
          /\ unusedIPs' = [unusedIPs EXCEPT ![h][c.ip] =
                             IF reservedIPs[h][c.ip] = NoRes THEN Absent ELSE @]
          /\ reservedIPs' = [reservedIPs EXCEPT ![h][c.ip] = r]
          /\ holders' = [holders EXCEPT ![c.ip] =
                            Append(@, [path |-> "preferred", prev |-> kv[c.ip].type])]
          /\ Finish(h, AllocRet(h, c, TRUE, c.ip, "preferred",
                                Aged(unusedIPs[h]) = {}))
          /\ UNCHANGED relAt
     ELSE /\ pc' = [pc EXCEPT ![h] = nextRereserveStep(step)]
          /\ call' = [call EXCEPT ![h] = c]
          /\ UNCHANGED <<kv, reservedIPs, unusedIPs, watchQ, holders, relAt>>

(* AllocateIP, free ip: one round of the loop of the call c. When          *)
(* getAvailableUnusedIPs finds nothing it re-syncs from KV; otherwise a    *)
(* candidate is picked and reserveIP is tried.                             *)
FreeRound(h, c) ==
  LET avail == availableUnusedIPs(unusedIPs[h])
      forced == Aged(unusedIPs[h]) = {}
      r == reservation(c.type, c.mac)
  IN IF avail = {}
     THEN /\ reservedIPs' = [reservedIPs EXCEPT ![h] = getReservations]
          /\ unusedIPs' = [unusedIPs EXCEPT ![h] = syncIPsUnused]
          /\ IF AllUnused(syncIPsUnused) = {}
             THEN Finish(h, AllocRet(h, c, FALSE, 0, "free", TRUE))
             ELSE /\ pc' = [pc EXCEPT ![h] = "pick"]
                  /\ call' = [call EXCEPT ![h] = c]
          /\ UNCHANGED <<kv, watchQ, holders, relAt>>
     ELSE IF ~c.random /\ ~hasNextAvailableIP(avail, reservedIPs[h])
     THEN /\ Finish(h, AllocRet(h, c, FALSE, 0, "free", forced))
          /\ UNCHANGED <<kv, reservedIPs, unusedIPs, watchQ, holders, relAt>>
     ELSE \E ip \in (IF c.random THEN avail
                     ELSE {getNextAvailableIP(avail, reservedIPs[h])}) :
            IF reserveIPSucceeds(ip)
            THEN /\ QueueRoom(1)
                 /\ kv' = [kv EXCEPT ![ip] = r]
                 /\ watchQ' = Emit(watchQ, <<[type |-> "PUT", ip |-> ip]>>)
                 /\ unusedIPs' = [unusedIPs EXCEPT ![h][ip] = Absent]
                 /\ reservedIPs' = [reservedIPs EXCEPT ![h][ip] = r]
                 /\ holders' = [holders EXCEPT ![ip] =
                                   Append(@, [path |-> "free", prev |-> kv[ip].type])]
                 /\ Finish(h, AllocRet(h, c, TRUE, ip, "free", forced))
                 /\ UNCHANGED relAt
            ELSE /\ pc' = [pc EXCEPT ![h] = "pick"]
                 /\ call' = [call EXCEPT ![h] =
                               [c EXCEPT !.tries = IF @ < MaxTries THEN @ + 1 ELSE @]]
                 /\ UNCHANGED <<kv, reservedIPs, unusedIPs, watchQ, holders, relAt>>

(* AllocateIP: take the pool lock, choose the path and make its first KV call *)
AllocateIP(h) ==
  /\ UNCHANGED outsidePool
  /\ pc[h] = "idle"
  /\ calls < MaxCalls
  /\ calls' = calls + 1
  /\ \E req \in AllocRequests :
       LET c == [NoCall EXCEPT !.op = "alloc", !.ip = req.ip, !.mac = req.mac,
                               !.type = req.type, !.random = req.random,
                               !.pre = AllRecentlyFreed(h) /\ ~usesPreferred(req)]
       IN IF usesPreferred(req)
          THEN ReservedTxn(h, c, "rrA")
          ELSE FreeRound(h, c)

(* AllocateIP, preferred ip: the next re-reserve transaction *)
AllocateReserved(h) ==
  /\ UNCHANGED outsidePool
  /\ pc[h] \in {"rrB", "rrC", "rrD"}
  /\ UNCHANGED calls
  /\ ReservedTxn(h, call[h], pc[h])

(* AllocateIP, free ip: the next round of the loop *)
AllocateTry(h) ==
  /\ UNCHANGED outsidePool
  /\ pc[h] = "pick"
  /\ UNCHANGED calls
  /\ FreeRound(h, call[h])

(* a release that does not look the ip up in reservedIPs *)
hasReservationAnyway(h, ip) == ip \in IPs

(* ReleaseIP: reservation, has := p.reservedIPs[ip] *)
hasReservation(h, ip) == reservedIPs[h][ip] /= NoRes

(* ReleaseIP *)
ReleaseIP(h) ==
  /\ UNCHANGED outsidePool
  /\ pc[h] = "idle"
  /\ calls < MaxCalls
  /\ calls' = calls + 1
  /\ \E ip \in IPs :
       LET r == reservedIPs[h][ip]
           ret(ok) == [NoCall EXCEPT !.op = "release", !.ok = ok, !.ip = ip,
                                     !.pre = r /= NoRes]
       IN IF ~hasReservation(h, ip)
          THEN /\ Finish(h, ret(FALSE))
               /\ UNCHANGED <<kv, reservedIPs, unusedIPs, watchQ, holders, relAt>>
          ELSE IF releaseSucceeds(ip, r)
          THEN /\ kv[ip] /= NoRes => QueueRoom(1)
               /\ kv' = [kv EXCEPT ![ip] = NoRes]
               /\ watchQ' = IF kv[ip] /= NoRes
                            THEN Emit(watchQ, <<[type |-> "DELETE", ip |-> ip]>>)
                            ELSE watchQ
               /\ reservedIPs' = [reservedIPs EXCEPT ![h][ip] = NoRes]
               /\ unusedIPs' = [unusedIPs EXCEPT ![h][ip] = Fresh]
               /\ holders' = [holders EXCEPT ![ip] = <<>>]
               /\ relAt' = [relAt EXCEPT ![h][ip] = Fresh]
               /\ Finish(h, ret(TRUE))
          ELSE /\ reservedIPs' = [reservedIPs EXCEPT ![h][ip] = kv[ip]]
               /\ Finish(h, ret(FALSE))
               /\ UNCHANGED <<kv, unusedIPs, watchQ, holders, relAt>>

(* ReleaseAllIPs, first half: deleteAllReservations *)
ReleaseAllIPs(h) ==
  /\ UNCHANGED outsidePool
  /\ pc[h] = "idle"
  /\ calls < MaxCalls
  /\ calls' = calls + 1
  /\ LET keys == {ip \in IPs : kv[ip] /= NoRes}
         evs == [i \in 1..Cardinality(keys) |->
                   [type |-> "DELETE",
                    ip |-> CHOOSE ip \in keys :
                             Cardinality({j \in keys : j < ip}) = i - 1]]
     IN /\ QueueRoom(Cardinality(keys))
        /\ kv' = [ip \in IPs |-> NoRes]
        /\ watchQ' = Emit(watchQ, evs)
        /\ holders' = [ip \in IPs |-> <<>>]
  /\ pc' = [pc EXCEPT ![h] = "sync"]
  /\ UNCHANGED <<reservedIPs, unusedIPs, call, relAt>>

(* ReleaseAllIPs, second half: syncIPs *)
ReleaseAllSync(h) ==
  /\ UNCHANGED outsidePool
  /\ pc[h] = "sync"
  /\ UNCHANGED calls
  /\ reservedIPs' = [reservedIPs EXCEPT ![h] = getReservations]
  /\ unusedIPs' = [unusedIPs EXCEPT ![h] = syncIPsUnused]
  /\ Finish(h, [NoCall EXCEPT !.op = "releaseAll", !.ok = TRUE])
  /\ UNCHANGED <<kv, watchQ, holders, relAt>>

(* watchForIPUsageChanges: the watcher goroutine handles one event. A PUT  *)
(* whose reservation can no longer be read leaves the loop by `continue`   *)
(* with the pool lock still held.                                          *)
WatchEvent(h) ==
  /\ UNCHANGED outsidePool
  /\ pc[h] = "idle"
  /\ UNCHANGED calls
  /\ watchQ[h] /= <<>>
  /\ LET ev == Head(watchQ[h])
         ip == ev.ip
         has == reservedIPs[h][ip] /= NoRes
         r == kv[ip]
     IN /\ watchQ' = [watchQ EXCEPT ![h] = Tail(@)]
        /\ IF ev.type = "PUT"
           THEN IF r = NoRes
                THEN /\ pc' = [pc EXCEPT ![h] = "leaked"]
                     /\ UNCHANGED <<reservedIPs, unusedIPs>>
                ELSE /\ reservedIPs' = [reservedIPs EXCEPT ![h][ip] = r]
                     /\ unusedIPs' = [unusedIPs EXCEPT ![h][ip] =
                                        IF has THEN @ ELSE Absent]
                     /\ pc' = pc
           ELSE /\ reservedIPs' = [reservedIPs EXCEPT ![h] = forgetReservation(@, ip)]
                /\ unusedIPs' = [unusedIPs EXCEPT ![h][ip] = IF has THEN Fresh ELSE @]
                /\ pc' = pc
  /\ UNCHANGED <<kv, call, holders, relAt>>

(* The pools are quiet for TickStep minutes: no call is in progress and   *)
(* no watch event is waiting. A release older than ReuseDelay is forgotten *)
Tick ==
  /\ UNCHANGED outsidePool
  /\ \A h \in Hosts : pc[h] \in {"idle", "leaked"}
  /\ \A h \in Hosts : pc[h] = "idle" => watchQ[h] = <<>>
  /\ \E h \in Hosts : \E ip \in IPs :
        unusedIPs[h][ip] \in Fresh..ReuseDelay \/ relAt[h][ip] /= Absent
  /\ UNCHANGED calls
  /\ unusedIPs' = [h \in Hosts |-> [ip \in IPs |-> Older(unusedIPs[h][ip])]]
  /\ relAt' = [h \in Hosts |-> [ip \in IPs |->
                 IF Older(relAt[h][ip]) > ReuseDelay THEN Absent
                 ELSE Older(relAt[h][ip])]]
  /\ UNCHANGED <<kv, reservedIPs, watchQ, pc, call, holders>>

(* loadFlannelConfig: n.localGateway, the address of FLANNEL_SUBNET, which *)
(* is the first address of the host subnet                                 *)
LocalGateway == 1

(* NewEtcdBasedAddressPool on every host, over a prefix that holds some    *)
(* reservations of earlier IPAM passes: syncIPs loads them into            *)
(* reservedIPs and puts every other ip into unusedIPs with freedAt = now   *)
InitPool ==
  /\ kv \in [IPs -> {NoRes, reservation(ReservationTypeReserved, NoMac)}]
  /\ reservedIPs = [h \in Hosts |-> kv]
  /\ unusedIPs = [h \in Hosts |-> [ip \in IPs |-> IF kv[ip] = NoRes THEN Fresh ELSE Absent]]
  /\ watchQ = [h \in Hosts |-> <<>>]
  /\ pc = [h \in Hosts |-> "idle"]
  /\ calls = 0
  /\ call = [h \in Hosts |-> NoCall]
  /\ holders = [ip \in IPs |-> IF kv[ip] = NoRes THEN <<>>
                                   ELSE <<[path |-> "free", prev |-> "none"]>>]
  /\ relAt = [h \in Hosts |-> [ip \in IPs |-> Absent]]

NextPool ==
  \/ \E h \in Hosts : AllocateIP(h)
  \/ \E h \in Hosts : AllocateReserved(h)
  \/ \E h \in Hosts : AllocateTry(h)
  \/ \E h \in Hosts : ReleaseIP(h)
  \/ \E h \in Hosts : ReleaseAllIPs(h)
  \/ \E h \in Hosts : ReleaseAllSync(h)
  \/ \E h \in Hosts : Return(h)
  \/ \E h \in Hosts : WatchEvent(h)
  \/ Tick

---------------------------------------------------------------------------
(* Driver: address space, network controller, endpoints *)

(* Bounds of the driver model *)
NumSubnets == 2
MaxDriverCalls == 4

FlannelIDs == {"x", "y"}
EndpointIDs == {"e1"}
(* the pool subnets of the address space in canonical order *)
Subnets == 1..NumSubnets
(* no subnet: a key, a map entry or a result that is absent *)
NoSubnet == 0
(* VNI_START *)
vniStart == 6514
NoID == ""

NoDCall == [op |-> "none", id |-> NoID, ep |-> "", subnet |-> NoSubnet,
            latest |-> FALSE, ok |-> FALSE, daemon |-> "none", env |-> "none",
            release |-> [subnet |-> NoSubnet, Success |-> FALSE, PoolID |-> NoID]]

Max(S) == CHOOSE x \in S : \A y \in S : y <= x

(* the store's revision after a write to another key: no config key is    *)
(* the latest write any more                                               *)
Written == [id \in FlannelIDs |-> FALSE]

(* a lease transaction that ignores its CreateRevision comparison *)
leaseKeyAnyway(s) == s \in Subnets

(* reservePoolSubnet: Txn If(CreateRevision(key) = 0) Then(Put(key, id)) Else(Get(key)) *)
leaseKeyIsNew(s) == asKV[s] = NoID

(* reservePoolSubnet: Success when the put was made or the key holds id *)
reservePoolSubnetSuccess(s, id) == leaseKeyIsNew(s) \/ asKV[s] = id

(* a release transaction that deletes the key whatever its value *)
releaseWithoutCompare(s, id) == asKV[s] /= NoID

(* releasePoolSubnet: Txn If(Value(key) = id) Then(Delete(key)) *)
releaseTxnSucceeds(s, id) == asKV[s] = id

(* releasePoolSubnet: the result. Success when the delete was made, or     *)
(* when the Get of the Else branch found no key; else the key's value is   *)
(* returned as PoolID                                                      *)
releasePoolSubnet(s, id) ==
  IF releaseTxnSucceeds(s, id) \/ asKV[s] = NoID
  THEN [subnet |-> s, Success |-> TRUE, PoolID |-> NoID]
  ELSE [subnet |-> s, Success |-> FALSE, PoolID |-> asKV[s]]

(* getUsedSubnets: networkID -> subnet over the keys in key order, a later *)
(* key of the same networkID replacing an earlier one                      *)
getUsedSubnets(id) ==
  IF \E s \in Subnets : asKV[s] = id THEN Max({s \in Subnets : asKV[s] = id})
  ELSE NoSubnet

(* readExistingNetworkConfig: found; a missing config is returned as an error *)
configFound(id) == cfg[id] /= NoSubnet

(* a config check that accepts whatever network the config is for *)
ensureAnyConfig(id, s) == configFound(id)

(* ensureFlannelConfig: nil only when the config is found and is for the  *)
(* network's subnet; the put of a new config comes after the error return  *)
(* for a missing config and is never reached                               *)
ensureFlannelConfig(id, s) == configFound(id) /\ cfg[id] = s

(* the call's return statement is reached *)
DriverFinish(h, ret) ==
  /\ dpc' = [dpc EXCEPT ![h] = "ret"]
  /\ dcall' = [dcall EXCEPT ![h] = ret]

DriverReturn(h) ==
  /\ UNCHANGED outsideDriver
  /\ dpc[h] = "ret"
  /\ dpc' = [dpc EXCEPT ![h] = "idle"]
  /\ dcall' = [dcall EXCEPT ![h] = NoDCall]
  /\ UNCHANGED <<asKV, cfg, cfgLatest, networks, bridges, endpoints, veths,
                 dcalls, granted, pools, pids, vnis>>

(* GetNewOrExistingPool: reservePoolSubnet for the candidate c.subnet; on  *)
(* Success the subnet is the pool of c.id, else the next candidate is      *)
(* tried, and the call fails when there is none left                       *)
LeaseTxn(h, c) ==
  LET s == c.subnet
  IN IF reservePoolSubnetSuccess(s, c.id)
     THEN /\ asKV' = IF leaseKeyIsNew(s) THEN [asKV EXCEPT ![s] = c.id] ELSE asKV
          /\ cfgLatest' = IF leaseKeyIsNew(s) THEN Written ELSE cfgLatest
          /\ granted' = [granted EXCEPT ![s] = @ \cup {c.id}]
          /\ dpc' = [dpc EXCEPT ![h] = "ensure"]
          /\ dcall' = [dcall EXCEPT ![h] = c]
     ELSE /\ IF s < NumSubnets
             THEN /\ dpc' = [dpc EXCEPT ![h] = "lease"]
                  /\ dcall' = [dcall EXCEPT ![h] = [c EXCEPT !.subnet = s + 1]]
             ELSE DriverFinish(h, [c EXCEPT !.subnet = NoSubnet, !.ok = FALSE])
          /\ UNCHANGED <<asKV, cfgLatest, granted>>

(* RequestPool: getOrCreateNetwork("", flannel-id); a network the host     *)
(* already has answers with its Network, else the first lease transaction  *)
(* of GetNewOrExistingPool is made                                         *)
RequestPool(h) ==
  /\ UNCHANGED outsideDriver
  /\ dpc[h] = "idle"
  /\ dcalls < MaxDriverCalls
  /\ dcalls' = dcalls + 1
  /\ \E id \in FlannelIDs :
       LET c == [NoDCall EXCEPT !.op = "RequestPool", !.id = id]
       IN IF networks[h][id] /= NoSubnet
          THEN /\ DriverFinish(h, [c EXCEPT !.subnet = networks[h][id], !.ok = TRUE])
               /\ pools' = [pools EXCEPT ![id] = @ \cup {<<h, networks[h][id]>>}]
               /\ UNCHANGED <<asKV, cfgLatest, granted>>
          ELSE /\ LeaseTxn(h, [c EXCEPT !.subnet = 1])
               /\ UNCHANGED pools
  /\ UNCHANGED <<cfg, networks, bridges, endpoints, veths, pids, vnis>>

(* GetNewOrExistingPool: the lease transaction of the next candidate *)
LeaseNext(h) ==
  /\ UNCHANGED outsideDriver
  /\ dpc[h] = "lease"
  /\ LeaseTxn(h, dcall[h])
  /\ UNCHANGED <<cfg, networks, bridges, endpoints, veths, dcalls, pools, pids, vnis>>

(* getOrCreateNetwork: vni := d.vniStart + d.networks.Count() + 1 *)
newVNI(h) == vniStart + Cardinality({id \in FlannelIDs : networks[h][id] /= NoSubnet}) + 1

(* startFlannel: what the spawned daemon does before the select returns *)
DaemonOutcomes == {"bootstrap done", "exit error", "exit 0", "timeout"}

(* startFlannel's select: the error it returns. A premature exit returns   *)
(* errors.Wrapf(cmd.Wait(), ...), which is nil for a daemon that exited    *)
(* with status 0; the timeout kills the daemon and returns an error        *)
startFlannelFails(outcome) == outcome \in {"exit error", "timeout"}

(* a start that keeps the pid of every daemon it has spawned *)
pidOfSpawnedDaemon(outcome, env) == outcome \in DaemonOutcomes

(* startFlannel: n.pid = cmd.Process.Pid is reached after 'bootstrap done' *)
(* and a loadFlannelConfig that returned nil                               *)
pidRecorded(outcome, env) == outcome = "bootstrap done" /\ env = "loaded"

(* getOrCreateNetwork after the lease: NewNetwork and its Ensure. With the *)
(* config in place the daemon is started; after 'bootstrap done'           *)
(* loadFlannelConfig waits for the env file, reads it and sets up the      *)
(* bridge, and when it returns an error the daemon is killed and the start *)
(* fails; else the pid is kept. A network whose Ensure returned nil is     *)
(* stored in d.networks and RequestPool returns its Network.               *)
EnsureNetwork(h) ==
  /\ UNCHANGED outsideDriver
  /\ dpc[h] = "ensure"
  /\ LET c == dcall[h]
     IN IF ensureFlannelConfig(c.id, c.subnet)
        THEN \E outcome \in DaemonOutcomes :
             \E load \in {"loaded", "env missing", "bridge error"} :
               LET env == IF outcome = "bootstrap done" THEN load ELSE "none"
                   d == [c EXCEPT !.daemon = outcome, !.env = env]
               IN IF startFlannelFails(outcome) \/ env \notin {"none", "loaded"}
                  THEN /\ DriverFinish(h, [d EXCEPT !.subnet = NoSubnet, !.ok = FALSE])
                       /\ UNCHANGED <<networks, bridges, endpoints, pools, pids, vnis>>
                  ELSE /\ networks' = [networks EXCEPT ![h][c.id] = c.subnet]
                       /\ endpoints' = [endpoints EXCEPT ![h][c.id] = {}]
                       /\ pools' = [pools EXCEPT ![c.id] = @ \cup {<<h, c.subnet>>}]
                       /\ bridges' = IF env = "loaded"
                                     THEN [bridges EXCEPT ![h] = @ \cup {c.id}]
                                     ELSE bridges
                       /\ pids' = IF pidRecorded(outcome, env)
                                  THEN [pids EXCEPT ![h] = @ \cup {c.id}]
                                  ELSE pids
                       /\ vnis' = [vnis EXCEPT ![h][c.id] = Append(@, newVNI(h))]
                       /\ DriverFinish(h, [d EXCEPT !.ok = TRUE])
        ELSE /\ DriverFinish(h, [c EXCEPT !.subnet = NoSubnet, !.ok = FALSE])
             /\ UNCHANGED <<networks, bridges, endpoints, pools, pids, vnis>>
  /\ UNCHANGED <<asKV, cfg, cfgLatest, veths, dcalls, granted>>

(* handleNetworksAdded and handleNetworksChanged for the flannel network   *)
(* of the RequestPool in progress, called by the networks store on its own *)
(* goroutine, without the driver lock, after RequestPool has found no      *)
(* network in d.networks and has got its pool (a callback that runs while  *)
(* no RPC does takes the steps RequestPool takes).                         *)
(* getOrCreateNetwork: a network the host has is returned; else            *)
(* GetNewOrExistingPool finds the subnet the flannelID holds, NewNetwork   *)
(* gets the next VNI, and after an Init that returned nil (config found,   *)
(* 'bootstrap done', env file read, bridge set up) the network is stored   *)
(* in d.networks; an Init that failed is logged and changes nothing.       *)
handleNetworksAdded(h) ==
  /\ UNCHANGED outsideDriver
  /\ dpc[h] = "ensure"
  /\ dcalls < MaxDriverCalls
  /\ dcalls' = dcalls + 1
  /\ LET id == dcall[h].id
         free == {t \in Subnets : reservePoolSubnetSuccess(t, id)}
         s == Min(free)
     IN /\ networks[h][id] = NoSubnet
        /\ free /= {}
        /\ asKV[s] = id
        /\ ensureFlannelConfig(id, s)
        /\ networks' = [networks EXCEPT ![h][id] = s]
        /\ endpoints' = [endpoints EXCEPT ![h][id] = {}]
        /\ bridges' = [bridges EXCEPT ![h] = @ \cup {id}]
        /\ pids' = [pids EXCEPT ![h] = @ \cup {id}]
        /\ vnis' = [vnis EXCEPT ![h][id] = Append(@, newVNI(h))]
  /\ UNCHANGED <<asKV, cfg, cfgLatest, veths, dpc, dcall, granted, pools>>

(* handleNetworksRemoved, last part: globalAddressSpace.ReleasePool, which *)
(* compare-and-deletes the subnet key of the flannelID's pool (the pool    *)
(* the host holds for it, else the one getUsedSubnets finds), and          *)
(* d.networks.Remove                                                       *)
ReleasePoolAndRemove(h, c) ==
  LET s == IF networks[h][c.id] /= NoSubnet THEN networks[h][c.id]
           ELSE getUsedSubnets(c.id)
      deleted == s /= NoSubnet /\ releaseTxnSucceeds(s, c.id)
  IN /\ asKV' = IF deleted THEN [asKV EXCEPT ![s] = NoID] ELSE asKV
     /\ granted' = IF deleted THEN [granted EXCEPT ![s] = @ \ {c.id}] ELSE granted
     /\ cfgLatest' = IF deleted THEN Written ELSE cfgLatest
     /\ networks' = [networks EXCEPT ![h][c.id] = NoSubnet]
     /\ vnis' = [vnis EXCEPT ![h][c.id] =
                   IF networks[h][c.id] /= NoSubnet
                   THEN SubSeq(@, 1, Len(@) - 1) ELSE @]
     /\ DriverFinish(h, [c EXCEPT !.ok = TRUE,
                                  !.release = IF s /= NoSubnet
                                              THEN releasePoolSubnet(s, c.id)
                                              ELSE @])

(* handleNetworksRemoved for one removed network. A network the host has   *)
(* is deleted first; network.Delete stops the daemon and reads the config: *)
(* a missing config, or one for another network, ends Delete with an error *)
(* that is logged.                                                         *)
handleNetworksRemoved(h) ==
  /\ UNCHANGED outsideDriver
  /\ dpc[h] = "idle"
  /\ dcalls < MaxDriverCalls
  /\ dcalls' = dcalls + 1
  /\ \E id \in FlannelIDs :
       LET c == [NoDCall EXCEPT !.op = "removed", !.id = id]
       IN /\ pools' = [pools EXCEPT ![id] = {}]
          /\ IF networks[h][id] = NoSubnet
             THEN ReleasePoolAndRemove(h, c)
             ELSE /\ dpc' = [dpc EXCEPT ![h] =
                               IF configFound(id) /\ cfg[id] = networks[h][id]
                               THEN "delete" ELSE "release"]
                  /\ dcall' = [dcall EXCEPT ![h] = [c EXCEPT !.latest = cfgLatest[id]]]
                  /\ UNCHANGED <<asKV, cfgLatest, networks, granted, vnis>>
          /\ pids' = [pids EXCEPT ![h] = @ \ {id}]
  /\ UNCHANGED <<cfg, bridges, endpoints, veths>>

(* network.Delete after the config was read: Txn If(ModRevision(configKey) *)
(* = result.revision) Then(Delete), where result.revision is the store's   *)
(* revision (resp.Header.Revision) at the time of the read.                  *)
(* When the transaction fails and the key is still there Delete ends with  *)
(* an error; else the bridge is deleted, the pool's IPs are released and   *)
(* the endpoints are deleted.                                              *)
DeleteNetworkConfig(h) ==
  /\ UNCHANGED outsideDriver
  /\ dpc[h] = "delete"
  /\ LET c == dcall[h]
         succeeded == configFound(c.id) /\ c.latest
     IN /\ cfg' = IF succeeded THEN [cfg EXCEPT ![c.id] = NoSubnet] ELSE cfg
        /\ cfgLatest' = IF succeeded THEN Written ELSE cfgLatest
        /\ IF ~succeeded /\ configFound(c.id)
           THEN UNCHANGED <<bridges, endpoints, veths>>
           ELSE /\ bridges' = [bridges EXCEPT ![h] = @ \ {c.id}]
                /\ veths' = [veths EXCEPT ![h][c.id] = @ \ endpoints[h][c.id]]
                /\ endpoints' = [endpoints EXCEPT ![h][c.id] = {}]
        /\ dpc' = [dpc EXCEPT ![h] = "release"]
        /\ UNCHANGED dcall
  /\ UNCHANGED <<asKV, networks, dcalls, granted, pools, pids, vnis>>

(* handleNetworksRemoved after network.Delete *)
ReleasePool(h) ==
  /\ UNCHANGED outsideDriver
  /\ dpc[h] = "release"
  /\ ReleasePoolAndRemove(h, dcall[h])
  /\ endpoints' = [endpoints EXCEPT ![h][dcall[h].id] = {}]
  /\ UNCHANGED <<cfg, bridges, veths, dcalls, pools, pids>>

(* the network of a request's NetworkID, or an error when the host has none *)
getFlannelNetworkFromDockerNetworkID(h, id) == networks[h][id] /= NoSubnet

(* CreateEndpoint with an address and a MAC: AddEndpoint stores the        *)
(* endpoint under the network, in KV and in network.endpoints              *)
CreateEndpoint(h) ==
  /\ UNCHANGED outsideDriver
  /\ dpc[h] = "idle"
  /\ dcalls < MaxDriverCalls
  /\ dcalls' = dcalls + 1
  /\ \E id \in FlannelIDs : \E ep \in EndpointIDs :
       LET c == [NoDCall EXCEPT !.op = "CreateEndpoint", !.id = id, !.ep = ep]
       IN /\ ep \notin endpoints[h][id]
          /\ IF getFlannelNetworkFromDockerNetworkID(h, id)
             THEN /\ endpoints' = [endpoints EXCEPT ![h][id] = @ \cup {ep}]
                  /\ cfgLatest' = Written
                  /\ DriverFinish(h, [c EXCEPT !.ok = TRUE])
             ELSE /\ DriverFinish(h, c)
                  /\ UNCHANGED <<endpoints, cfgLatest>>
  /\ UNCHANGED <<asKV, cfg, networks, bridges, veths, granted, pools, pids, vnis>>

(* Join: the endpoint's veth pair is created and attached to the bridge *)
Join(h) ==
  /\ UNCHANGED outsideDriver
  /\ dpc[h] = "idle"
  /\ dcalls < MaxDriverCalls
  /\ dcalls' = dcalls + 1
  /\ \E id \in FlannelIDs : \E ep \in EndpointIDs :
       LET c == [NoDCall EXCEPT !.op = "Join", !.id = id, !.ep = ep]
       IN IF getFlannelNetworkFromDockerNetworkID(h, id) /\ ep \in endpoints[h][id]
          THEN /\ veths' = [veths EXCEPT ![h][id] = @ \cup {ep}]
               /\ DriverFinish(h, [c EXCEPT !.ok = TRUE])
          ELSE /\ DriverFinish(h, c)
               /\ UNCHANGED veths
  /\ UNCHANGED <<asKV, cfg, cfgLatest, networks, bridges, endpoints, granted, pools, pids, vnis>>

(* DeleteEndpoint: an unknown network and an endpoint that the network     *)
(* does not have are errors; else the endpoint is deleted with its veth    *)
(* pair and removed from network.endpoints                                 *)
DeleteEndpoint(h) ==
  /\ UNCHANGED outsideDriver
  /\ dpc[h] = "idle"
  /\ dcalls < MaxDriverCalls
  /\ dcalls' = dcalls + 1
  /\ \E id \in FlannelIDs : \E ep \in EndpointIDs :
       LET c == [NoDCall EXCEPT !.op = "DeleteEndpoint", !.id = id, !.ep = ep]
       IN IF ~getFlannelNetworkFromDockerNetworkID(h, id)
          THEN /\ DriverFinish(h, c)
               /\ UNCHANGED <<endpoints, veths, cfgLatest>>
          ELSE IF ep \notin endpoints[h][id]
          THEN /\ DriverFinish(h, c)
               /\ UNCHANGED <<endpoints, veths, cfgLatest>>
          ELSE /\ endpoints' = [endpoints EXCEPT ![h][id] = @ \ {ep}]
               /\ veths' = [veths EXCEPT ![h][id] = @ \ {ep}]
               /\ cfgLatest' = Written
               /\ DriverFinish(h, [c EXCEPT !.ok = TRUE])
  /\ UNCHANGED <<asKV, cfg, networks, bridges, granted, pools, pids, vnis>>

(* The plugin starts on every host of a cluster whose KV holds the leases  *)
(* and backend configs of the networks created so far, each network with   *)
(* its own subnet; at most one config key is the store's latest write.     *)
InitDriver ==
  /\ cfg \in [FlannelIDs -> Subnets \cup {NoSubnet}]
  /\ \A i, j \in FlannelIDs : cfg[i] /= NoSubnet /\ cfg[i] = cfg[j] => i = j
  /\ asKV = [s \in Subnets |-> IF \E id \in FlannelIDs : cfg[id] = s
                               THEN CHOOSE id \in FlannelIDs : cfg[id] = s
                               ELSE NoID]
  /\ cfgLatest \in [FlannelIDs -> BOOLEAN]
  /\ \A i \in FlannelIDs : cfgLatest[i] => configFound(i)
  /\ \A i, j \in FlannelIDs : cfgLatest[i] /\ cfgLatest[j] => i = j
  /\ networks = [h \in Hosts |-> [id \in FlannelIDs |-> NoSubnet]]
  /\ bridges = [h \in Hosts |-> {}]
  /\ endpoints = [h \in Hosts |-> [id \in FlannelIDs |-> {}]]
  /\ veths = [h \in Hosts |-> [id \in FlannelIDs |-> {}]]
  /\ dpc = [h \in Hosts |-> "idle"]
  /\ dcall = [h \in Hosts |-> NoDCall]
  /\ dcalls = 0
  /\ granted = [s \in Subnets |-> IF asKV[s] = NoID THEN {} ELSE {asKV[s]}]
  /\ pools = [id \in FlannelIDs |-> {}]
  /\ pids = [h \in Hosts |-> {}]
  /\ vnis = [h \in Hosts |-> [id \in FlannelIDs |-> <<>>]]

(* no driver call is made: the driver variables of the other specifications *)
DriverAtRest ==
  /\ cfg = [id \in FlannelIDs |-> NoSubnet]
  /\ cfgLatest = Written
  /\ asKV = [s \in Subnets |-> NoID]
  /\ networks = [h \in Hosts |-> [id \in FlannelIDs |-> NoSubnet]]
  /\ bridges = [h \in Hosts |-> {}]
  /\ endpoints = [h \in Hosts |-> [id \in FlannelIDs |-> {}]]
  /\ veths = [h \in Hosts |-> [id \in FlannelIDs |-> {}]]
  /\ dpc = [h \in Hosts |-> "idle"]
  /\ dcall = [h \in Hosts |-> NoDCall]
  /\ dcalls = 0
  /\ granted = [s \in Subnets |-> {}]
  /\ pools = [id \in FlannelIDs |-> {}]
  /\ pids = [h \in Hosts |-> {}]
  /\ vnis = [h \in Hosts |-> [id \in FlannelIDs |-> <<>>]]

(* no pool call is made: the pool variables of the other specifications *)
PoolAtRest ==
  /\ kv = [ip \in IPs |-> NoRes]
  /\ reservedIPs = [h \in Hosts |-> kv]
  /\ unusedIPs = [h \in Hosts |-> [ip \in IPs |-> Fresh]]
  /\ watchQ = [h \in Hosts |-> <<>>]
  /\ pc = [h \in Hosts |-> "idle"]
  /\ calls = 0
  /\ call = [h \in Hosts |-> NoCall]
  /\ holders = [ip \in IPs |-> <<>>]
  /\ relAt = [h \in Hosts |-> [ip \in IPs |-> Absent]]

NextDriver ==
  \/ \E h \in Hosts : RequestPool(h)
  \/ \E h \in Hosts : LeaseNext(h)
  \/ \E h \in Hosts : EnsureNetwork(h)
  \/ \E h \in Hosts : handleNetworksRemoved(h)
  \/ \E h \in Hosts : DeleteNetworkConfig(h)
  \/ \E h \in Hosts : ReleasePool(h)
  \/ \E h \in Hosts : CreateEndpoint(h)
  \/ \E h \in Hosts : Join(h)
  \/ \E h \in Hosts : DeleteEndpoint(h)
  \/ \E h \in Hosts : DriverReturn(h)

(* the driver with the callbacks of the networks store running beside its  *)
(* RPC handlers                                                            *)
NextDriverCallbacks ==
  \/ NextDriver
  \/ \E h \in Hosts : handleNetworksAdded(h)

---------------------------------------------------------------------------
(* Fwmarks of one network (package service_lb, fwmarks) *)

(* Bounds of the fwmarks model *)
NumFwmarks == 2
MaxFwCalls == 3

Services == {"s1", "s2"}
(* fwmark values; FormatUint and ParseUint of a uint32 are inverse to each *)
(* other, so a key list/<fwmark> and a value of by-service are the number   *)
Fwmarks == 1..NumFwmarks
(* no fwmark: the by-service key is absent *)
NoMark == 0
(* no service: the list key is absent *)
NoSvc == ""

NoFwCall == [op |-> "none", svc |-> NoSvc, mark |-> NoMark, ok |-> FALSE,
             Succeeded |-> FALSE]

(* a generator that returns the CRC32 without looking at the existing     *)
(* fwmarks                                                                 *)
GenerateCRCOnly(svc, existing) == {fwCrc[svc]}

(* GenerateFWMARK: the CRC32 of "<serviceID>-<networkID>" when it is not   *)
(* among the existing fwmarks, else the CRC32 of the serviceID with a      *)
(* random suffix, drawn again until it is not among them; with no value    *)
(* left the attempts run out and the result is an error (no value)         *)
GenerateFWMARK(svc, existing) ==
  IF fwCrc[svc] \notin existing THEN {fwCrc[svc]} ELSE Fwmarks \ existing

FwFinish(h, ret) ==
  /\ fpc' = [fpc EXCEPT ![h] = "ret"]
  /\ fcall' = [fcall EXCEPT ![h] = ret]

FwReturn(h) ==
  /\ UNCHANGED outsideFwmarks
  /\ fpc[h] = "ret"
  /\ fpc' = [fpc EXCEPT ![h] = "idle"]
  /\ fcall' = [fcall EXCEPT ![h] = NoFwCall]
  /\ UNCHANGED <<fwList, fwBySvc, fwCrc, fcalls>>

(* fwmarks.Get: read by-service/<serviceID>; an existing fwmark is returned *)
FwGet(h) ==
  /\ UNCHANGED outsideFwmarks
  /\ fpc[h] = "idle"
  /\ fcalls < MaxFwCalls
  /\ fcalls' = fcalls + 1
  /\ \E svc \in Services :
       LET c == [NoFwCall EXCEPT !.op = "Get", !.svc = svc]
       IN IF fwBySvc[svc] /= NoMark
          THEN FwFinish(h, [c EXCEPT !.mark = fwBySvc[svc], !.ok = TRUE])
          ELSE /\ fpc' = [fpc EXCEPT ![h] = "list"]
               /\ fcall' = [fcall EXCEPT ![h] = c]
  /\ UNCHANGED <<fwList, fwBySvc, fwCrc>>

(* fwmarks.Get, loop: read the keys under list/ and generate a fwmark *)
FwGenerate(h) ==
  /\ UNCHANGED outsideFwmarks
  /\ fpc[h] = "list"
  /\ LET c == fcall[h]
         existingFwmarks == {f \in Fwmarks : fwList[f] /= NoSvc}
     IN IF GenerateFWMARK(c.svc, existingFwmarks) = {}
        THEN FwFinish(h, c)
        ELSE \E f \in GenerateFWMARK(c.svc, existingFwmarks) :
               /\ fpc' = [fpc EXCEPT ![h] = "txn"]
               /\ fcall' = [fcall EXCEPT ![h] = [c EXCEPT !.mark = f]]
  /\ UNCHANGED <<fwList, fwBySvc, fwCrc, fcalls>>

(* fwmarks.Get, loop: Txn If(CreateRevision(list/<fwmark>) = 0)            *)
(* Then(Put(by-service/<serviceID>, fwmark), Put(list/<fwmark>, serviceID)); *)
(* a failed transaction starts the loop over                                *)
FwTxn(h) ==
  /\ UNCHANGED outsideFwmarks
  /\ fpc[h] = "txn"
  /\ LET c == fcall[h]
     IN IF fwList[c.mark] = NoSvc
        THEN /\ fwBySvc' = [fwBySvc EXCEPT ![c.svc] = c.mark]
             /\ fwList' = [fwList EXCEPT ![c.mark] = c.svc]
             /\ FwFinish(h, [c EXCEPT !.ok = TRUE])
        ELSE /\ fpc' = [fpc EXCEPT ![h] = "list"]
             /\ fcall' = [fcall EXCEPT ![h] = [c EXCEPT !.mark = NoMark]]
             /\ UNCHANGED <<fwList, fwBySvc>>
  /\ UNCHANGED <<fwCrc, fcalls>>

(* fwmarks.Release: Txn If(Value(by-service/<serviceID>) = fwmark,         *)
(* Value(list/<fwmark>) = serviceID) Then(Delete both). A transaction that *)
(* fails returns errors.WithMessagef(err, ...) with err = nil, which is nil *)
FwRelease(h) ==
  /\ UNCHANGED outsideFwmarks
  /\ fpc[h] = "idle"
  /\ fcalls < MaxFwCalls
  /\ fcalls' = fcalls + 1
  /\ \E svc \in Services : \E f \in Fwmarks :
       /\ IF fwBySvc[svc] = f /\ fwList[f] = svc
          THEN /\ fwBySvc' = [fwBySvc EXCEPT ![svc] = NoMark]
               /\ fwList' = [fwList EXCEPT ![f] = NoSvc]
          ELSE UNCHANGED <<fwList, fwBySvc>>
       /\ FwFinish(h, [NoFwCall EXCEPT !.op = "Release", !.svc = svc, !.mark = f,
                                       !.Succeeded = fwBySvc[svc] = f /\ fwList[f] = svc,
                                       !.ok = TRUE])
  /\ UNCHANGED fwCrc

(* NewFwmarksManagement on every host, over an empty prefix; the CRC32 of  *)
(* each service's name is some fwmark value                                *)
InitFwmarks ==
  /\ fwList = [f \in Fwmarks |-> NoSvc]
  /\ fwBySvc = [s \in Services |-> NoMark]
  /\ fwCrc \in [Services -> Fwmarks]
  /\ fpc = [h \in Hosts |-> "idle"]
  /\ fcall = [h \in Hosts |-> NoFwCall]
  /\ fcalls = 0

(* no fwmarks call is made: the fwmarks variables of the other specifications *)
FwmarksAtRest ==
  /\ fwList = [f \in Fwmarks |-> NoSvc]
  /\ fwBySvc = [s \in Services |-> NoMark]
  /\ fwCrc = [s \in Services |-> 1]
  /\ fpc = [h \in Hosts |-> "idle"]
  /\ fcall = [h \in Hosts |-> NoFwCall]
  /\ fcalls = 0

NextFwmarks ==
  \/ \E h \in Hosts : FwGet(h)
  \/ \E h \in Hosts : FwGenerate(h)
  \/ \E h \in Hosts : FwTxn(h)
  \/ \E h \in Hosts : FwRelease(h)
  \/ \E h \in Hosts : FwReturn(h)

---------------------------------------------------------------------------
(* Sharded distributed store (package etcd, shardedDistributedStore); the  *)
(* local shard key of a host's store is the host                           *)
(* Bounds of the store model *)
MaxStoreQueue == 2
MaxStoreCalls == 4

Items == {"i1"}
(* values of an item: v1a and v2 differ in a field that Equals compares   *)
(* (NetworkInfo.Equals compares FlannelID and Name)                        *)
ItemValues == {"v1a", "v2"}
(* no value: the key, or the map entry, is absent *)
NoVal == ""
(* an empty shard, and a caller's empty map *)
NoItems == [i \in Items |-> NoVal]
Truths == [Items -> ItemValues \cup {NoVal}]
(* the step just taken was no call of a store *)
NoStoreCall == [host |-> "", op |-> "none", item |-> "", val |-> NoVal, prev |-> NoVal,
                truth |-> NoItems, again |-> FALSE, ok |-> FALSE,
                dirty |-> FALSE, cbs |-> {}, order |-> <<>>, stored |-> FALSE,
                lockHeld |-> FALSE]
(* the step just taken handled no event of a store's own shard *)
NoWatch == [host |-> "", type |-> "none", dirty |-> FALSE, cbs |-> {}]

(* Equaler.Equals of two items *)
Equals(a, b) == a = b

Keys(m) == {i \in Items : m[i] /= NoVal}

(* the watch delivers the events of a write to the store of every host    *)
(* whose watch has been started, the writer's own included                 *)
StoreEmit(writer, evs) ==
  [h \in Hosts |-> IF sphase[h] = "watching" THEN sq[h] \o evs ELSE sq[h]]
StoreQueueRoom(writer, n) ==
  \A h \in Hosts : sphase[h] = "watching" => Len(sq[h]) + n <= MaxStoreQueue

(* the items of a set as a sequence, in some order *)
RECURSIVE SeqOf(_)
SeqOf(S) == IF S = {} THEN <<>>
            ELSE LET i == CHOOSE x \in S : TRUE IN <<i>> \o SeqOf(S \ {i})

(* Connection.PutIfNewOrChanged: the key is written when it is absent or   *)
(* holds another value                                                     *)
PutIfNewOrChanged(old, v) == old /= v

(* syncToInternalState: the callbacks that the diff of a shard against     *)
(* truth calls for                                                         *)
syncToInternalState(shardItems, truth) ==
  (IF \E i \in Keys(truth) : shardItems[i] = NoVal THEN {"OnAdded"} ELSE {})
  \cup (IF \E i \in Keys(truth) : shardItems[i] /= NoVal /\ ~Equals(shardItems[i], truth[i])
        THEN {"OnChanged"} ELSE {})
  \cup (IF Keys(shardItems) \ Keys(truth) /= {} THEN {"OnRemoved"} ELSE {})

(* syncToInternalState: the batches added, changes and removed of one      *)
(* shard, as <<shardKey, itemID>> pairs                                    *)
syncBatches(g, shardItems, truth) ==
  [added |-> {<<g, i>> : i \in {j \in Keys(truth) : shardItems[j] = NoVal}},
   changes |-> {<<g, i>> : i \in {j \in Keys(truth) :
                  shardItems[j] /= NoVal /\ ~Equals(shardItems[j], truth[j])}},
   removed |-> {<<g, i>> : i \in Keys(shardItems) \ Keys(truth)}]

(* handlers called with the removals first *)
callHandlersRemovedFirst(added, changes, removed) ==
  (IF removed /= {} THEN <<[cb |-> "OnRemoved", batch |-> removed]>> ELSE <<>>)
  \o (IF added /= {} THEN <<[cb |-> "OnAdded", batch |-> added]>> ELSE <<>>)
  \o (IF changes /= {} THEN <<[cb |-> "OnChanged", batch |-> changes]>> ELSE <<>>)

(* sync, if callHandlers: the handlers in the order they are called, each  *)
(* with its batch when that is not empty                                   *)
callHandlers(added, changes, removed) ==
  (IF added /= {} THEN <<[cb |-> "OnAdded", batch |-> added]>> ELSE <<>>)
  \o (IF changes /= {} THEN <<[cb |-> "OnChanged", batch |-> changes]>> ELSE <<>>)
  \o (IF removed /= {} THEN <<[cb |-> "OnRemoved", batch |-> removed]>> ELSE <<>>)

(* sync: the local shard is written only inside the loop over the shards   *)
(* that loadData returned                                                  *)
localShardIsWritten(h, etcdData) == h \in etcdData

(* syncToInternalState: whether the diff of a shard against truth is empty *)
syncToInternalStateQuiet(shardItems, truth) ==
  syncToInternalState(shardItems, truth) = {}

(* an update that reports a change without comparing the items *)
addOrUpdateAlwaysFires(prev, v) ==
  IF prev /= NoVal THEN {"OnChanged"} ELSE {"OnAdded"}

(* AddOrUpdateItem: the callback after the KV write: OnChanged when the    *)
(* item existed and does not Equal the new one, OnAdded when it did not    *)
addOrUpdateCallbacks(prev, v) ==
  IF prev /= NoVal THEN (IF ~Equals(prev, v) THEN {"OnChanged"} ELSE {})
  ELSE {"OnAdded"}

(* DeleteItem: the callback after the KV delete *)
deleteCallbacks(prev) == IF prev /= NoVal THEN {"OnRemoved"} ELSE {}

(* loadData: the shards that have a key in KV *)
loadData == {g \in Hosts : Keys(skv[g]) /= {}}

(* a KV write of host w is a KV change by another host for the Sync calls  *)
(* of every other host                                                     *)
ForeignChange(w, changed) ==
  [h \in Hosts |-> IF h /= w /\ changed THEN FALSE ELSE struth[h]]

(* Init(truth) up to the start of the watch, which is sync(truth, false),  *)
(* and Sync(truth), which is sync(truth, true), on a store whose Init has  *)
(* returned:                                                               *)
(* Sync(truth): syncToInternalState of the local shard, loadData,          *)
(* syncToInternalState of every other shard that has a key in KV; when the *)
(* local shard has a key in KV, PutIfNewOrChanged of every item of truth   *)
(* and Delete of the keys that truth does not have; then the callbacks     *)
StoreSync(h) ==
  /\ UNCHANGED outsideStore
  /\ sphase[h] \in {"new", "watching"}
  /\ sphase[h] = "watching" => scalls < MaxStoreCalls
  /\ scalls' = IF sphase[h] = "watching" THEN scalls + 1 ELSE scalls
  /\ sphase' = [sphase EXCEPT ![h] = IF @ = "new" THEN "loaded" ELSE @]
  /\ \E truth \in Truths :
       LET callHandlersArg == sphase[h] = "watching"
           etcdData == loadData
           synced == [g \in Hosts |->
                        IF g = h THEN truth
                        ELSE IF g \in etcdData THEN skv[g] ELSE sdata[h][g]]
           quiet == \A g \in Hosts :
                      syncToInternalStateQuiet(sdata[h][g], synced[g])
           cbs == UNION {syncToInternalState(sdata[h][g], synced[g]) : g \in Hosts}
           added == UNION {syncBatches(g, sdata[h][g], synced[g]).added : g \in Hosts}
           changes == UNION {syncBatches(g, sdata[h][g], synced[g]).changes : g \in Hosts}
           removed == UNION {syncBatches(g, sdata[h][g], synced[g]).removed : g \in Hosts}
           puts == IF localShardIsWritten(h, etcdData)
                   THEN {i \in Keys(truth) : PutIfNewOrChanged(skv[h][i], truth[i])}
                   ELSE {}
           dels == IF localShardIsWritten(h, etcdData)
                   THEN Keys(skv[h]) \ Keys(truth) ELSE {}
           after == IF localShardIsWritten(h, etcdData)
                    THEN [skv EXCEPT ![h] = truth] ELSE skv
           evs == [k \in 1..Cardinality(puts) |->
                     [type |-> "PUT", shard |-> h, item |-> SeqOf(puts)[k],
                      val |-> truth[SeqOf(puts)[k]]]]
                  \o [k \in 1..Cardinality(dels) |->
                     [type |-> "DELETE", shard |-> h, item |-> SeqOf(dels)[k],
                      val |-> NoVal]]
           mid == [sdata[h] EXCEPT ![h] = truth]
           holds(shards, i) == {g \in Hosts : shards[g][i] /= NoVal}
           order(shards) == {f \in [Items -> Hosts] :
                               \A i \in Items :
                                 f[i] \in (IF holds(shards, i) = {} THEN {h}
                                           ELSE holds(shards, i))}
       IN /\ StoreQueueRoom(h, Len(evs))
          /\ sdata' = [sdata EXCEPT ![h] = synced]
          /\ \E first \in order(mid) : \E last \in order(synced) :
               /\ sflat' = [sflat EXCEPT ![h] =
                              [i \in Items |-> IF holds(synced, i) = {} THEN NoVal
                                               ELSE synced[last[i]][i]]]
               /\ itemToShardKey' = [itemToShardKey EXCEPT ![h] =
                              [i \in Items |->
                                 IF holds(synced, i) /= {} THEN last[i]
                                 ELSE IF holds(mid, i) /= {} THEN first[i]
                                 ELSE @[i]]]
          /\ skv' = after
          /\ swatch' = NoWatch
          /\ sq' = StoreEmit(h, evs)
          /\ struth' = [ForeignChange(h, evs /= <<>>) EXCEPT ![h] = callHandlersArg]
          /\ slast' = [NoStoreCall EXCEPT
                            !.host = h,
                            !.op = IF callHandlersArg THEN "Sync" ELSE "Init",
                            !.truth = truth,
                            !.again = struth[h] /\ sdata[h][h] = truth,
                            !.ok = TRUE, !.dirty = synced /= sdata[h],
                            !.cbs = IF quiet \/ ~callHandlersArg THEN {} ELSE cbs,
                            !.order = IF callHandlersArg
                                      THEN callHandlers(added, changes, removed)
                                      ELSE <<>>,
                            !.stored = after[h] = truth,
                            !.lockHeld = TRUE]

(* AddOrUpdateItem(itemID, item): set the item in the local shard, then    *)
(* PutIfNewOrChanged its key; when that fails the error is returned, else  *)
(* the callback fires                                                      *)
AddOrUpdateItem(h) ==
  /\ UNCHANGED outsideStore
  /\ sphase[h] = "watching"
  /\ UNCHANGED sphase
  /\ scalls < MaxStoreCalls
  /\ scalls' = scalls + 1
  /\ \E i \in Items : \E v \in ItemValues : \E kvOK \in BOOLEAN :
       LET previousItem == sdata[h][h][i]
           written == kvOK /\ PutIfNewOrChanged(skv[h][i], v)
           evs == IF written
                  THEN <<[type |-> "PUT", shard |-> h, item |-> i, val |-> v]>>
                  ELSE <<>>
       IN /\ StoreQueueRoom(h, Len(evs))
          /\ sdata' = [sdata EXCEPT ![h][h][i] = v]
          /\ sflat' = [sflat EXCEPT ![h][i] = v]
          /\ itemToShardKey' = [itemToShardKey EXCEPT ![h][i] = h]
          /\ skv' = IF written THEN [skv EXCEPT ![h][i] = v] ELSE skv
          /\ sq' = StoreEmit(h, evs)
          /\ struth' = [ForeignChange(h, written) EXCEPT ![h] = FALSE]
          /\ slast' = [NoStoreCall EXCEPT
                            !.host = h, !.op = "AddOrUpdateItem", !.item = i, !.val = v,
                            !.prev = previousItem, !.ok = kvOK,
                            !.dirty = previousItem /= v,
                            !.cbs = IF kvOK THEN addOrUpdateCallbacks(previousItem, v)
                                    ELSE {},
                            !.lockHeld = TRUE]
          /\ swatch' = NoWatch

(* DeleteItem(itemID): remove the item from the local shard, then Delete   *)
(* its key; when that fails the error is returned, else the callback fires *)
DeleteItem(h) ==
  /\ UNCHANGED outsideStore
  /\ sphase[h] = "watching"
  /\ UNCHANGED sphase
  /\ scalls < MaxStoreCalls
  /\ scalls' = scalls + 1
  /\ \E i \in Items : \E kvOK \in BOOLEAN :
       LET previousItem == sdata[h][h][i]
           written == kvOK /\ skv[h][i] /= NoVal
           evs == IF written
                  THEN <<[type |-> "DELETE", shard |-> h, item |-> i, val |-> NoVal]>>
                  ELSE <<>>
       IN /\ StoreQueueRoom(h, Len(evs))
          /\ sdata' = [sdata EXCEPT ![h][h][i] = NoVal]
          /\ sflat' = [sflat EXCEPT ![h][i] = NoVal]
          /\ itemToShardKey' = [itemToShardKey EXCEPT ![h][i] = ""]
          /\ skv' = IF written THEN [skv EXCEPT ![h][i] = NoVal] ELSE skv
          /\ sq' = StoreEmit(h, evs)
          /\ struth' = [ForeignChange(h, written) EXCEPT ![h] = FALSE]
          /\ slast' = [NoStoreCall EXCEPT
                            !.host = h, !.op = "DeleteItem", !.item = i,
                            !.prev = previousItem, !.ok = kvOK,
                            !.dirty = previousItem /= NoVal,
                            !.cbs = IF kvOK THEN deleteCallbacks(previousItem)
                                    ELSE {},
                            !.lockHeld = TRUE]
          /\ swatch' = NoWatch

(* a watcher that applies the events of its own shard like any other *)
isNoShard(h, shardKey) == shardKey \notin Hosts

(* handleWatchEvents: if shardKey == s.localShardKey the event is ignored *)
isLocalShard(h, shardKey) == shardKey = h

(* handleWatchEvents: one event. An event of the store's own shard is      *)
(* ignored. For another shard a DELETE removes the item from the shard,    *)
(* from data and from itemToShardKey, and calls OnRemoved when data had    *)
(* the item; a PUT sets the item in the shard and in data to the value the *)
(* event carries; the lock is released and then the handler is called.     *)
StoreWatchEvent(h) ==
  /\ UNCHANGED outsideStore
  /\ sq[h] /= <<>>
  /\ LET ev == Head(sq[h])
         previousItem == sdata[h][ev.shard][ev.item]
         item == IF ev.type = "DELETE" THEN NoVal ELSE ev.val
         cbs == IF ev.type = "DELETE" THEN deleteCallbacks(sflat[h][ev.item])
                ELSE addOrUpdateCallbacks(previousItem, item)
     IN /\ sq' = [sq EXCEPT ![h] = Tail(@)]
        /\ IF isLocalShard(h, ev.shard)
           THEN /\ UNCHANGED <<sdata, sflat, itemToShardKey>>
                /\ swatch' = [NoWatch EXCEPT !.host = h, !.type = ev.type]
           ELSE /\ sdata' = [sdata EXCEPT ![h][ev.shard][ev.item] = item]
                /\ sflat' = [sflat EXCEPT ![h][ev.item] = item]
                /\ itemToShardKey' = IF ev.type = "DELETE"
                                     THEN [itemToShardKey EXCEPT ![h][ev.item] = ""]
                                     ELSE itemToShardKey
                /\ swatch' = IF ev.shard = h
                              THEN [NoWatch EXCEPT !.host = h, !.type = ev.type,
                                                   !.dirty = previousItem /= item,
                                                   !.cbs = cbs]
                              ELSE NoWatch
  /\ slast' = NoStoreCall
  /\ UNCHANGED <<skv, sphase, scalls, struth>>

(* Init after its sync: client.Watch on the prefix, from the revision the  *)
(* store has when the watch is created, and go handleWatchEvents           *)
StoreWatch(h) ==
  /\ UNCHANGED outsideStore
  /\ sphase[h] = "loaded"
  /\ sphase' = [sphase EXCEPT ![h] = "watching"]
  /\ slast' = NoStoreCall
  /\ swatch' = NoWatch
  /\ UNCHANGED <<skv, sdata, sflat, itemToShardKey, sq, scalls, struth>>

(* NewShardedDistributedStore on every host, over an empty prefix; on the  *)
(* first host Init(empty map) has returned as well                         *)
InitStore ==
  /\ skv = [g \in Hosts |-> NoItems]
  /\ sdata = [h \in Hosts |-> [g \in Hosts |-> NoItems]]
  /\ sflat = [h \in Hosts |-> NoItems]
  /\ itemToShardKey = [h \in Hosts |-> [i \in Items |-> ""]]
  /\ sq = [h \in Hosts |-> <<>>]
  /\ sphase = [h \in Hosts |-> IF h = "h1" THEN "watching" ELSE "new"]
  /\ scalls = 0
  /\ slast = NoStoreCall
  /\ struth = [h \in Hosts |-> FALSE]
  /\ swatch = NoWatch

NextStore ==
  \/ \E h \in Hosts : StoreSync(h)
  \/ \E h \in Hosts : AddOrUpdateItem(h)
  \/ \E h \in Hosts : DeleteItem(h)
  \/ \E h \in Hosts : StoreWatchEvent(h)
  \/ \E h \in Hosts : StoreWatch(h)

---------------------------------------------------------------------------
(* Nameservers: one per sandbox key *)

(* Bounds of the nameserver model *)
NumRequests == 2
MaxNsCalls == 3

SandboxKeys == {"k1", "k2"}
(* the goroutines that ask for a nameserver: Join requests and the         *)
(* goroutines of injectNameserverIntoAlreadyRunningContainers              *)
Requests == 1..NumRequests
(* no nameserver: the sandbox key is not in the map *)
NoNs == 0

(* the ephemeral ports a listener on 127.0.0.33:0 can be bound to *)
Ports == {40001, 40002}
(* no port: the zero value of the fields portTCP and portUDP *)
NoPort == 0

NoNsCall == [key |-> "", ns |-> NoNs, wasAdded |-> FALSE, err |-> FALSE,
             listen |-> [tcp |-> NoPort, udp |-> NoPort],
             rules |-> [tcp |-> NoPort, udp |-> NoPort]]

(* replaceDNATSNATRules: the ports of the DNAT and SNAT rules are the      *)
(* fields n.portTCP and n.portUDP. NewNameserver does not set them, and    *)
(* startDnsServersInNamespace keeps the ports that startDNSServer returns  *)
(* in the local variables portTCP and portUDP                              *)
replaceDNATSNATRules(portTCP, portUDP) == [tcp |-> NoPort, udp |-> NoPort]

(* a caller that activates whatever nameserver it was given *)
alwaysActivates(c) == c.key \notin SandboxKeys

(* getOrAddNameserver: if !wasAdded, the nameserver of an earlier request  *)
(* is returned with a closed error channel and is not activated again      *)
notAdded(c) == ~c.wasAdded

(* ConcurrentMap.GetOrAdd under the lock of the map: the key is present *)
nameserverExists(key) == nameserversBySandboxKey[key] /= NoNs

(* getOrAddNameserver up to its return or its call of Activate. GetOrAdd   *)
(* looks the sandbox key up and, with no entry, runs the factory           *)
(* dns.NewNameserver and stores its result, all under the lock of the map; *)
(* an error of the factory stores nothing and is returned.                 *)
getOrAddNameserver(r) ==
  /\ UNCHANGED outsideNameservers
  /\ npc[r] = "idle"
  /\ ncalls < MaxNsCalls
  /\ ncalls' = ncalls + 1
  /\ \E key \in SandboxKeys : \E factoryOK \in BOOLEAN :
       LET c == [NoNsCall EXCEPT !.key = key]
           created == Len(nsActivations[key]) + 1
           got == IF nameserverExists(key)
                  THEN [c EXCEPT !.ns = nameserversBySandboxKey[key]]
                  ELSE IF factoryOK
                  THEN [c EXCEPT !.ns = created, !.wasAdded = TRUE]
                  ELSE [c EXCEPT !.err = TRUE]
       IN /\ IF got.wasAdded
             THEN /\ nameserversBySandboxKey' =
                       [nameserversBySandboxKey EXCEPT ![key] = created]
                  /\ nsActivations' = [nsActivations EXCEPT ![key] = Append(@, 0)]
             ELSE UNCHANGED <<nameserversBySandboxKey, nsActivations>>
          /\ ncall' = [ncall EXCEPT ![r] = got]
          /\ npc' = [npc EXCEPT ![r] = IF got.err \/ notAdded(got)
                                       THEN "ret" ELSE "activate"]

(* nameserver.Activate of the nameserver the call was given: the listeners *)
(* are started in the sandbox, each on the port the system gives it, and   *)
(* the DNAT and SNAT rules are inserted; or an error is sent on the        *)
(* channel                                                                 *)
Activate(r) ==
  /\ UNCHANGED outsideNameservers
  /\ npc[r] = "activate"
  /\ \E activated \in BOOLEAN : \E portTCP, portUDP \in Ports :
       /\ nsActivations' = [nsActivations EXCEPT ![ncall[r].key][ncall[r].ns] = @ + 1]
       /\ ncall' = [ncall EXCEPT
                      ![r].err = ~activated,
                      ![r].listen = IF activated
                                    THEN [tcp |-> portTCP, udp |-> portUDP] ELSE @,
                      ![r].rules = IF activated
                                   THEN replaceDNATSNATRules(portTCP, portUDP) ELSE @]
  /\ npc' = [npc EXCEPT ![r] = "ret"]
  /\ UNCHANGED <<nameserversBySandboxKey, ncalls>>

(* the caller has read the error channel *)
NsReturn(r) ==
  /\ UNCHANGED outsideNameservers
  /\ npc[r] = "ret"
  /\ npc' = [npc EXCEPT ![r] = "idle"]
  /\ ncall' = [ncall EXCEPT ![r] = NoNsCall]
  /\ UNCHANGED <<nameserversBySandboxKey, nsActivations, ncalls>>

(* the driver after NewFlannelDriver: no nameserver yet *)
InitNameservers ==
  /\ nameserversBySandboxKey = [k \in SandboxKeys |-> NoNs]
  /\ nsActivations = [k \in SandboxKeys |-> <<>>]
  /\ npc = [r \in Requests |-> "idle"]
  /\ ncall = [r \in Requests |-> NoNsCall]
  /\ ncalls = 0

NextNameservers ==
  \/ \E r \in Requests : getOrAddNameserver(r)
  \/ \E r \in Requests : Activate(r)
  \/ \E r \in Requests : NsReturn(r)

---------------------------------------------------------------------------
(* Service: the fields of one service and its events *)

(* Bound of the service model *)
MaxServiceCalls == 3

ServiceNetworks == {"n1", "n2"}
VipAddresses == {"10.0.0.2", "10.0.0.3"}
ContainerIDs == {"c1"}
ServiceEndpointModeVip == "vip"
ServiceEndpointModeDnsrr == "dnsrr"
(* endpointMode of a service whose SetEndpointMode was not called yet *)
NoMode == ""

(* map[string]net.IP: network -> address *)
IPMaps == UNION {[D -> VipAddresses] : D \in SUBSET ServiceNetworks}
NoIPs == CHOOSE m \in IPMaps : DOMAIN m = {}

NoServiceCall == [op |-> "none", wasInitialized |-> FALSE, changed |-> FALSE,
                  differs |-> FALSE,
                  initialized |-> FALSE, raised |-> {}]

(* CompareIPMaps: true when the two maps have the same keys and addresses *)
CompareIPMaps(a, b) ==
  /\ Cardinality(DOMAIN a) = Cardinality(DOMAIN b)
  /\ \A key \in DOMAIN a : key \in DOMAIN b /\ a[key] = b[key]

(* initialized whatever the endpoint mode is, once there is an IPAM VIP *)
IsInitializedWithoutMode(s) ==
  /\ s.networks /= {}
  /\ \/ s.endpointMode = ServiceEndpointModeDnsrr
     \/ DOMAIN s.ipamVIPs /= {}

(* service.IsInitialized *)
IsInitialized(s) ==
  /\ s.id /= "" /\ s.name /= ""
  /\ s.networks /= {}
  /\ \/ s.endpointMode = ServiceEndpointModeDnsrr
     \/ (s.endpointMode = ServiceEndpointModeVip /\ DOMAIN s.ipamVIPs /= {})

(* the end of a setter: the service after the call, with the events raised *)
ServiceFinish(op, after, raised) ==
  /\ service' = after
  /\ svlast' = [NoServiceCall EXCEPT !.op = op,
                                     !.wasInitialized = IsInitialized(service),
                                     !.differs = after /= service,
                                     !.initialized = IsInitialized(after),
                                     !.raised = raised]
  /\ svcalls' = svcalls + 1
  /\ UNCHANGED <<svpending, initOwed>>

(* SetNetworks and SetEndpointMode after s.Unlock(): OnInitialized when   *)
(* the service is initialized now and was not when the call took the lock, *)
(* else the change event when the call changed something                   *)
raisedBySetter(wasInitialized, now, changed, event) ==
  IF ~IsInitialized(now) THEN {}
  ELSE IF ~wasInitialized THEN {"OnInitialized"}
  ELSE IF changed THEN {event}
  ELSE {}

(* SetNetworks and SetEndpointMode between s.Lock() and s.Unlock(): the    *)
(* fields are assigned, wasInitialized and the change flag are kept        *)
SetterLocked(op, after, changed) ==
  /\ svpending[op].op = "none"
  /\ svcalls < MaxServiceCalls
  /\ svcalls' = svcalls + 1
  /\ service' = after
  /\ svpending' = [svpending EXCEPT ![op] =
                     [NoServiceCall EXCEPT
                        !.op = op,
                        !.wasInitialized = IsInitialized(service),
                        !.changed = changed,
                        !.differs = after /= service]]
  /\ initOwed' = IF ~IsInitialized(service) /\ IsInitialized(after)
                 THEN initOwed + 1 ELSE initOwed
  /\ svlast' = NoServiceCall

SetNetworks ==
  /\ UNCHANGED outsideService
  /\ \E nets \in SUBSET ServiceNetworks : \E ipamVIPs \in IPMaps :
       LET ipamVIPsChanged == CompareIPMaps(service.ipamVIPs, ipamVIPs)
           after == [service EXCEPT !.networks = nets, !.ipamVIPs = ipamVIPs]
       IN SetterLocked("SetNetworks", after,
                       ipamVIPsChanged \/ nets /= service.networks)

SetEndpointMode ==
  /\ UNCHANGED outsideService
  /\ \E endpointMode \in {ServiceEndpointModeVip, ServiceEndpointModeDnsrr} :
       LET after == [service EXCEPT !.endpointMode = endpointMode]
       IN SetterLocked("SetEndpointMode", after,
                       endpointMode /= service.endpointMode)

(* SetNetworks and SetEndpointMode after s.Unlock(): s.IsInitialized() is  *)
(* read again, without the lock, and the event is raised                   *)
SetterReturn(op) ==
  /\ UNCHANGED outsideService
  /\ svpending[op].op /= "none"
  /\ svlast' = [svpending[op] EXCEPT
                  !.initialized = IsInitialized(service),
                  !.raised = raisedBySetter(svpending[op].wasInitialized, service,
                                            svpending[op].changed,
                                            IF op = "SetNetworks"
                                            THEN "OnNetworksChanged"
                                            ELSE "OnEndpointModeChanged")]
  /\ initOwed' = IF "OnInitialized" \in svlast'.raised THEN initOwed - 1 ELSE initOwed
  /\ svpending' = [svpending EXCEPT ![op] = NoServiceCall]
  /\ UNCHANGED <<service, svcalls>>

SetVIPs ==
  /\ UNCHANGED outsideService
  /\ svcalls < MaxServiceCalls
  /\ \E vips \in IPMaps :
       LET vipsChanged == CompareIPMaps(service.vips, vips)
           after == [service EXCEPT !.vips = vips]
       IN ServiceFinish("SetVIPs", after,
            IF IsInitialized(after) /\ vipsChanged THEN {"OnVIPsChanged"} ELSE {})

AddContainer ==
  /\ UNCHANGED outsideService
  /\ svcalls < MaxServiceCalls
  /\ \E container \in ContainerIDs :
       LET after == [service EXCEPT !.containers = @ \cup {container}]
       IN ServiceFinish("AddContainer", after,
            IF IsInitialized(after) THEN {"OnContainerAdded"} ELSE {})

RemoveContainer ==
  /\ UNCHANGED outsideService
  /\ svcalls < MaxServiceCalls
  /\ \E container \in ContainerIDs :
       LET after == [service EXCEPT !.containers = @ \ {container}]
       IN ServiceFinish("RemoveContainer", after,
            IF container \in service.containers /\ IsInitialized(after)
            THEN {"OnContainerRemoved"} ELSE {})

(* NewService(id, name) *)
InitService ==
  /\ service = [id |-> "s1", name |-> "web", endpointMode |-> NoMode,
                networks |-> {}, vips |-> NoIPs, ipamVIPs |-> NoIPs,
                containers |-> {}]
  /\ svlast = NoServiceCall
  /\ svpending = [op \in {"SetNetworks", "SetEndpointMode"} |-> NoServiceCall]
  /\ initOwed = 0
  /\ svcalls = 0

NextService ==
  \/ SetNetworks
  \/ SetEndpointMode
  \/ \E op \in {"SetNetworks", "SetEndpointMode"} : SetterReturn(op)
  \/ SetVIPs
  \/ AddContainer
  \/ RemoveContainer

---------------------------------------------------------------------------
(* The specifications *)

InitSpecPool == InitPool /\ DriverAtRest /\ FwmarksAtRest /\ InitStore
  /\ InitNameservers /\ InitService
SpecPool == InitSpecPool /\ [][NextPool]_vars

(* The scheduler lets a call that holds the pool lock take its next step, *)
(* and lets the watcher goroutine of a pool handle its next event when no  *)
(* call holds the pool lock.                                               *)
SpecPoolFair ==
  /\ SpecPool
  /\ \A h \in Hosts : /\ WF_vars(AllocateReserved(h))
                       /\ WF_vars(AllocateTry(h))
                       /\ WF_vars(ReleaseAllSync(h))
                       /\ WF_vars(Return(h))
                       /\ WF_vars(WatchEvent(h))

InitSpecDriver == InitDriver /\ PoolAtRest /\ FwmarksAtRest /\ InitStore
  /\ InitNameservers /\ InitService
SpecDriver == InitSpecDriver /\ [][NextDriver]_vars
SpecDriverCallbacks == InitSpecDriver /\ [][NextDriverCallbacks]_vars

InitSpecFwmarks == InitFwmarks /\ PoolAtRest /\ DriverAtRest /\ InitStore
  /\ InitNameservers /\ InitService
SpecFwmarks == InitSpecFwmarks /\ [][NextFwmarks]_vars

InitSpecStore == InitStore /\ PoolAtRest /\ DriverAtRest /\ FwmarksAtRest
  /\ InitNameservers /\ InitService
SpecStore == InitSpecStore /\ [][NextStore]_vars

InitSpecNameservers ==
  InitNameservers /\ PoolAtRest /\ DriverAtRest /\ FwmarksAtRest /\ InitStore
  /\ InitService
SpecNameservers == InitSpecNameservers /\ [][NextNameservers]_vars

InitSpecService ==
  InitService /\ PoolAtRest /\ DriverAtRest /\ FwmarksAtRest /\ InitStore
  /\ InitNameservers
SpecService == InitSpecService /\ [][NextService]_vars

---------------------------------------------------------------------------
(* Properties of the IP pool *)

(* C1 as stated: two AllocateIP calls never both return the same ip        *)
(* unless the ip was released in between, i.e. since the reservation key   *)
(* of an ip was last deleted at most one AllocateIP call has returned it.  *)
C1_NoSecondReturn ==
  \A ip \in IPs : Len(holders[ip]) <= 1

(* C1, amended: since the reservation key of an ip was last deleted, the   *)
(* first AllocateIP call that returned it found the key absent, and every  *)
(* later one was a preferred-ip call that re-reserved an entry whose KV    *)
(* value was `reserved`; the free-ip path never returns an ip whose key    *)
(* exists, on whatever host.                                               *)
C1_OnlyReservedIsTakenOver ==
  \A ip \in IPs :
    /\ (kv[ip] = NoRes) = (holders[ip] = <<>>)
    /\ \A i \in 1..Len(holders[ip]) :
         IF i = 1 THEN holders[ip][i].prev = "none"
         ELSE /\ holders[ip][i].path = "preferred"
              /\ holders[ip][i].prev = ReservationTypeReserved

(* C1, witness: a preferred-ip call returned an ip that an earlier call    *)
(* had returned and nobody had released.                                   *)
C1_TakenOver ==
  \E ip \in IPs : \E h \in Hosts :
    /\ Len(holders[ip]) = 2
    /\ pc[h] = "ret" /\ call[h].op = "alloc" /\ call[h].ok /\ call[h].ip = ip
    /\ call[h].path = "preferred"


AllocReturned(h) == pc[h] = "ret" /\ call[h].op = "alloc" /\ call[h].ok

(* C4 as stated: after ReleaseIP(ip) succeeded on a host, no AllocateIP    *)
(* call on that host returns ip within the following ReuseDelay minutes    *)
(* unless no ip in unusedIPs was freed longer ago.                         *)
C4_NoEarlyReuse ==
  \A h \in Hosts : AllocReturned(h) /\ call[h].recent => call[h].forced

(* C4, amended: the delay binds the free-ip path only. An AllocateIP call  *)
(* that picks from unusedIPs returns an ip released on that host within    *)
(* the last ReuseDelay minutes only when no ip in unusedIPs was freed      *)
(* longer ago; a preferred-ip call may return such an ip at once.          *)
C4_NoEarlyReuseOnFreePath ==
  \A h \in Hosts :
    AllocReturned(h) /\ call[h].path = "free" /\ call[h].recent => call[h].forced

(* C4, witness: while an ip released less than ReuseDelay minutes ago is   *)
(* in unusedIPs, a free-path call passes it over for an older one.         *)
C4_OlderIPPreferred ==
  \E h \in Hosts : \E ip \in IPs :
    /\ relAt[h][ip] /= Absent /\ unusedIPs[h][ip] /= Absent
    /\ AllocReturned(h) /\ call[h].path = "free"
    /\ call[h].ip /= ip /\ ~call[h].forced

(* C5 as stated: an AllocateIP call without preferred ip that starts when  *)
(* every usable ip is in unusedIPs, freed less than ReuseDelay minutes     *)
(* ago, succeeds.                                                          *)
C5_AllRecentStillSucceeds ==
  \A h \in Hosts :
    (pc[h] = "pick" /\ call[h].pre) ~> (pc[h] = "ret" /\ call[h].ok)

(* C14 as stated: every AllocateIP call returns, with an ip or an error,   *)
(* after a bounded number of reservation attempts                          *)
C14_AllocateIPReturns ==
  \A h \in Hosts :
    (pc[h] \notin {"idle", "ret"} /\ call[h].op = "alloc") ~> (pc[h] = "ret")

(* C13: a ReleaseIP call for an ip that is not in the pool's reservedIPs    *)
(* returns an error and leaves KV, reservedIPs and unusedIPs as they were  *)
C13_ReleaseOfUnreservedFails ==
  [][\A h \in Hosts :
       (pc[h] = "idle" /\ pc'[h] = "ret" /\ call'[h].op = "release"
        /\ reservedIPs[h][call'[h].ip] = NoRes)
         => ~call'[h].ok /\ UNCHANGED <<kv, reservedIPs, unusedIPs>>]_vars

(* C13, witness: ReleaseIP has failed on a pool for an ip it does not hold, *)
(* while the ip's reservation key, written by another host, is in KV        *)
C13_UnreservedReleaseRefused ==
  \E h \in Hosts :
    /\ pc[h] = "ret" /\ call[h].op = "release" /\ ~call[h].ok /\ ~call[h].pre
    /\ reservedIPs[h][call[h].ip] = NoRes /\ kv[call[h].ip] /= NoRes

(* C18 as stated: the local gateway ip of the host subnet is reserved from *)
(* the start of the network on, so that no AllocateIP call returns it,     *)
(* whatever AllocateIP, ReleaseIP and ReleaseAllIPs calls came before.     *)
C18_GatewayNeverAllocated ==
  \A h \in Hosts :
    ~(pc[h] = "ret" /\ call[h].op = "alloc" /\ call[h].ok /\ call[h].ip = LocalGateway)

DeletePending(h, ip) ==
  \E i \in 1..Len(watchQ[h]) : watchQ[h][i] = [type |-> "DELETE", ip |-> ip]

---------------------------------------------------------------------------
(* Properties of the driver *)

(* C2: every address-space subnet key is absent or holds one flannelID,    *)
(* and that flannelID is the only one whose reservation of the subnet was  *)
(* answered with Success since the key was last deleted: an attempt on a   *)
(* subnet leased to another flannelID fails and leaves the key alone.      *)
C2_OneHolderPerSubnet ==
  \A s \in Subnets : granted[s] = IF asKV[s] = NoID THEN {} ELSE {asKV[s]}

(* C2, witness: a reservation attempt has failed on a subnet leased to     *)
(* another flannelID and moved on to the next candidate.                   *)
C2_TakenSubnetSkipped ==
  \E h \in Hosts :
    /\ dpc[h] = "lease" /\ dcall[h].subnet > 1
    /\ asKV[dcall[h].subnet - 1] \notin {NoID, dcall[h].id}
    /\ granted[dcall[h].subnet - 1] = {asKV[dcall[h].subnet - 1]}

(* C3: the successful RequestPool calls for one flannel-id, on whatever    *)
(* hosts, made since a network-removed event of that flannel-id was last   *)
(* handled, all returned the same Pool.                                    *)
C3_SamePoolForFlannelID ==
  \A id \in FlannelIDs : \A p, q \in pools[id] : p[2] = q[2]

(* C3, witness: RequestPool for one flannel-id succeeded on every host,    *)
(* with a Pool that is not the first candidate of the address space.       *)
C3_EveryHostGotThePool ==
  \E id \in FlannelIDs :
    /\ {p[1] : p \in pools[id]} = Hosts
    /\ \A p \in pools[id] : p[2] > 1

(* C8 as stated: when a host has finished handling the network-removed     *)
(* event of a network, the host has no bridge (with its iptables rules)    *)
(* and no veth pair of that network, and no address-space key holds the    *)
(* network's flannelID.                                                    *)
C8_NothingLeftAfterRemoval ==
  [][\A h \in Hosts :
       (dpc[h] /= "ret" /\ dpc'[h] = "ret" /\ dcall'[h].op = "removed")
       => /\ dcall'[h].id \notin bridges'[h]
          /\ veths'[h][dcall'[h].id] = {}
          /\ \A s \in Subnets : asKV'[s] /= dcall'[h].id]_vars

(* C10 as stated: DeleteEndpoint for an endpoint that the known network of *)
(* the request does not have returns success and changes no state.         *)
C10_DeleteMissingEndpointSucceeds ==
  [][\A h \in Hosts :
       (/\ dpc[h] = "idle" /\ dpc'[h] = "ret"
        /\ dcall'[h].op = "DeleteEndpoint"
        /\ getFlannelNetworkFromDockerNetworkID(h, dcall'[h].id)
        /\ dcall'[h].ep \notin endpoints[h][dcall'[h].id])
       => /\ dcall'[h].ok
          /\ UNCHANGED <<asKV, cfg, networks, bridges, endpoints, veths>>]_vars

---------------------------------------------------------------------------
(* Properties of the fwmarks *)

(* C15 as stated: when the daemon of a network exits before it has printed *)
(* 'bootstrap done', or prints nothing for 1.5 s and is killed, the start  *)
(* of the network fails with an error, no pid is kept, no bridge is made   *)
(* and the config key is as it was when the daemon was spawned.            *)
C15_PrematureExitFailsTheStart ==
  [][\A h \in Hosts :
       (/\ dpc[h] = "ensure" /\ dpc'[h] = "ret"
        /\ dcall'[h].daemon \in {"exit error", "exit 0", "timeout"})
       => /\ ~dcall'[h].ok
          /\ dcall'[h].id \notin pids'[h]
          /\ dcall'[h].id \notin bridges'[h]
          /\ cfg' = cfg]_vars

(* C16 as stated: Ensure for a network whose config key does not exist     *)
(* writes the config of the network's subnet under the key and starts the  *)
(* daemon.                                                                 *)
C16_FirstEnsureWritesConfig ==
  [][\A h \in Hosts :
       (/\ dpc[h] = "ensure" /\ dpc'[h] = "ret"
        /\ ~configFound(dcall[h].id))
       => /\ cfg'[dcall[h].id] = dcall[h].subnet
          /\ dcall'[h].daemon /= "none"]_vars

(* C7 as stated: list/<fwmark> names a service exactly when that service's *)
(* by-service key holds the fwmark, so each service has at most one fwmark *)
(* and each fwmark at most one service                                      *)
C7_OneFwmarkViewsAgree ==
  \A s \in Services : \A f \in Fwmarks : (fwList[f] = s) <=> (fwBySvc[s] = f)

---------------------------------------------------------------------------
(* Properties of the sharded store *)

(* C9 as stated: a Sync call that follows a Sync call of the same store    *)
(* with the same truth, no other call of this store and no KV change by    *)
(* another host in between, fires no callback                              *)
C9_SecondSyncIsQuiet ==
  (slast.op = "Sync" /\ slast.again) => slast.cbs = {}

(* C11 as stated: an AddOrUpdateItem or DeleteItem call whose KV write      *)
(* failed has returned the error, has left the store's in-memory items as  *)
(* they were before the call and has fired no callback                     *)
C11_FailedWriteLeavesMemory ==
  (slast.op \in {"AddOrUpdateItem", "DeleteItem"} /\ ~slast.ok)
    => ~slast.dirty /\ slast.cbs = {}

(* C12: a successful AddOrUpdateItem(id, v) has fired OnAdded alone when   *)
(* id was not in the local shard, OnChanged alone when id was there with a *)
(* value that does not Equal v, and nothing when the value Equals v        *)
C12_OneCallbackOrNone ==
  (slast.op = "AddOrUpdateItem" /\ slast.ok)
    => slast.cbs = (CASE slast.prev = NoVal -> {"OnAdded"}
                      [] slast.prev /= NoVal /\ ~Equals(slast.prev, slast.val)
                           -> {"OnChanged"}
                      [] OTHER -> {})

(* C12, witness: an update with the value the item already had has         *)
(* succeeded without a callback                                            *)
C12_IdenticalUpdateIsQuiet ==
  /\ slast.op = "AddOrUpdateItem" /\ slast.ok
  /\ slast.prev = slast.val /\ slast.cbs = {}


---------------------------------------------------------------------------
(* Properties of the nameservers *)

---------------------------------------------------------------------------
(* Properties of the service *)

(* C19 as stated: a service is initialized exactly when its networks are   *)
(* not empty and its endpoint mode is dnsrr or its ipamVIPs are not empty. *)
C19_InitializedIffNetworksAndModeOrVIPs ==
  svlast.op /= "none"
  => svlast.initialized =
       (/\ service.networks /= {}
        /\ \/ service.endpointMode = ServiceEndpointModeDnsrr
           \/ DOMAIN service.ipamVIPs /= {})

(* C19, amended: a service is initialized exactly when its networks are    *)
(* not empty and its endpoint mode is dnsrr, or is vip with ipamVIPs that  *)
(* are not empty; a service whose endpoint mode is not known yet is not    *)
(* initialized.                                                            *)
C19_InitializedNeedsKnownMode ==
  svlast.op /= "none"
  => svlast.initialized =
       (/\ service.networks /= {}
        /\ \/ service.endpointMode = ServiceEndpointModeDnsrr
           \/ /\ service.endpointMode = ServiceEndpointModeVip
              /\ DOMAIN service.ipamVIPs /= {})

(* C19, witness: SetNetworks has given networks and IPAM VIPs to a service *)
(* whose endpoint mode was never set, and the service is not initialized.  *)
C19_VIPsWithoutModeNotInitialized ==
  /\ svlast.op = "SetNetworks" /\ ~svlast.initialized
  /\ service.endpointMode = NoMode
  /\ service.networks /= {} /\ DOMAIN service.ipamVIPs /= {}

(* C21 as stated: after a Sync(truth) that returned without error, the KV  *)
(* keys of the local shard are exactly the items of truth, also when the   *)
(* local shard had no key in KV before the call.                           *)
C21_SyncStoresTruth ==
  (slast.op = "Sync" /\ slast.ok) => slast.stored

(* C22: a watch event, PUT or DELETE, of the store's own local shard       *)
(* changes no in-memory index of that store and fires no callback.         *)
C22_OwnShardEventIsIgnored ==
  [][swatch'.host /= "" => (sdata' = sdata /\ ~swatch'.dirty /\ swatch'.cbs = {})]_vars

(* C22, witness: a store has handled the DELETE event of an item of its    *)
(* own shard while it holds that item in memory again.                     *)
C22_OwnDeleteHandledWhileItemHeld ==
  /\ swatch.host /= "" /\ swatch.type = "DELETE"
  /\ \E i \in Items : sdata[swatch.host][swatch.host][i] /= NoVal

(* C23: within one Sync the callbacks fire in the order OnAdded, OnChanged,*)
(* OnRemoved, each at most once and each with a batch that is not empty.   *)
C23_SyncCallbacksInOrder ==
  slast.op = "Sync"
  => LET rank == [c \in {"OnAdded", "OnChanged", "OnRemoved"} |->
                    CASE c = "OnAdded" -> 1 [] c = "OnChanged" -> 2 [] OTHER -> 3]
         order == slast.order
     IN /\ \A k \in 1..Len(order) :
             /\ order[k].cb \in DOMAIN rank
             /\ order[k].batch /= {}
        /\ \A k, l \in 1..Len(order) :
             k < l => rank[order[k].cb] < rank[order[l].cb]
        /\ {order[k].cb : k \in 1..Len(order)} = slast.cbs

(* C23, witness: one Sync has fired two callbacks, OnRemoved the later.    *)
C23_SyncFiredTwoCallbacks ==
  /\ slast.op = "Sync" /\ Len(slast.order) = 2
  /\ slast.order[2].cb = "OnRemoved"

(* C24 as stated: no callback of a store is invoked while the store's lock *)
(* is held, in AddOrUpdateItem, DeleteItem and Sync.                       *)
C24_CallbacksOutsideTheLock ==
  slast.cbs /= {} => ~slast.lockHeld

(* C25: releasing a pool subnet for a flannelID deletes the subnet key     *)
(* only when its value is that flannelID; it reports success when the key  *)
(* was deleted or was already absent; when the key holds another flannelID *)
(* it reports failure with that flannelID and leaves the key as it is. No  *)
(* other subnet key is touched.                                            *)
C25_ReleaseComparesTheValue ==
  [][\A h \in Hosts :
       (dcall[h].release.subnet = NoSubnet /\ dcall'[h].release.subnet /= NoSubnet)
       => LET r == dcall'[h].release
              s == r.subnet
              id == dcall'[h].id
          IN /\ asKV'[s] = (IF asKV[s] = id THEN NoID ELSE asKV[s])
             /\ \A t \in Subnets \ {s} : asKV'[t] = asKV[t]
             /\ r.Success = (asKV[s] \in {id, NoID})
             /\ asKV[s] \notin {id, NoID} => r.PoolID = asKV[s]]_vars

(* C25, witness: a release found the subnet key held by another flannelID  *)
(* and failed with that flannelID, the key still holding it.               *)
C25_ReleaseFoundAnotherID ==
  \E h \in Hosts :
    LET r == dcall[h].release
    IN /\ r.subnet /= NoSubnet /\ ~r.Success
       /\ r.PoolID \notin {NoID, dcall[h].id}
       /\ asKV[r.subnet] = r.PoolID

C27_DeleteRunsEveryStep ==
  [][\A h \in Hosts :
       (dpc[h] /= "release" /\ dpc'[h] = "release")
       => /\ dcall'[h].id \notin bridges'[h]
          /\ veths'[h][dcall'[h].id] = {}
          /\ endpoints'[h][dcall'[h].id] = {}]_vars

(* C28 as stated: network.Delete removes the config key with a compare on  *)
(* that key's ModRevision, so when the key was found by its read the       *)
(* delete succeeds and the key is gone after it, whatever was written to   *)
(* other keys since the config was written.                                *)
C28_ConfigKeyGoneAfterDelete ==
  [][\A h \in Hosts :
       (dpc[h] = "delete" /\ dpc'[h] = "release")
       => cfg'[dcall[h].id] = NoSubnet]_vars

(* C29 as stated: a die or destroy event (handleDeletedContainer, that is  *)
(* DeleteItem) for a container that is in the local shard removes it and   *)
(* fires OnRemoved once; the same event for a container that is not in the *)
(* local shard any more deletes nothing in memory and fires no callback.   *)
(* So a die event followed by a destroy event fires OnRemoved exactly once.*)
C29_DieThenDestroyFiresOnce ==
  slast.op = "DeleteItem"
  => /\ sdata[slast.host][slast.host][slast.item] = NoVal
     /\ slast.dirty = (slast.prev /= NoVal)
     /\ slast.cbs = (IF slast.prev /= NoVal THEN {"OnRemoved"} ELSE {})

(* C30: two different services of a network never hold the same fwmark,    *)
(* also when their Get calls race on different hosts: the fwmark of a      *)
(* service's by-service key has a list key that names this service, a list *)
(* key is written only when it did not exist, a Get that returns a fwmark  *)
(* returns the one the KV holds for its service, and GenerateFWMARK never  *)
(* returns one of the existing fwmarks.                                    *)
C30_NoFwmarkForTwoServices ==
  [][/\ \A s, t \in Services :
          (s /= t /\ fwBySvc'[s] /= NoMark) => fwBySvc'[s] /= fwBySvc'[t]
     /\ \A s \in Services :
          fwBySvc'[s] /= NoMark => fwList'[fwBySvc'[s]] = s
     /\ \A f \in Fwmarks :
          (fwList'[f] /= fwList[f] /\ fwList'[f] /= NoSvc) => fwList[f] = NoSvc
     /\ \A h \in Hosts :
          /\ (fpc[h] = "list" /\ fpc'[h] = "txn")
             => fwList[fcall'[h].mark] = NoSvc
          /\ (fpc[h] /= "ret" /\ fpc'[h] = "ret" /\ fcall'[h].op = "Get" /\ fcall'[h].ok)
             => /\ fwBySvc'[fcall'[h].svc] = fcall'[h].mark
                /\ fwList'[fcall'[h].mark] = fcall'[h].svc]_vars

(* C30, witness: two services whose names have the same CRC32 both hold a  *)
(* fwmark, and a Get has returned a fwmark that is not the CRC32 of its    *)
(* service.                                                                *)
C30_CollisionResolved ==
  /\ \A s, t \in Services : fwCrc[s] = fwCrc[t] /\ fwBySvc[s] /= NoMark
  /\ \E h \in Hosts :
       /\ fpc[h] = "ret" /\ fcall[h].op = "Get" /\ fcall[h].ok
       /\ fcall[h].mark /= fwCrc[fcall[h].svc]

(* C31 as stated: after the activation of a nameserver has completed, the  *)
(* DNAT and SNAT rules name exactly the ports on which its TCP and UDP     *)
(* listeners are bound.                                                    *)
C31_RulesNameTheListenerPorts ==
  \A r \in Requests :
    (npc[r] = "ret" /\ ncall[r].wasAdded /\ ~ncall[r].err)
    => ncall[r].rules = ncall[r].listen

(* C32 as stated: once Init has returned on a host and every pending watch *)
(* event has been delivered to it, its in-memory copy of each remote shard *)
(* equals the KV content of that shard.                                    *)
C32_RemoteShardsFollowKV ==
  \A h \in Hosts :
    (sphase[h] = "watching" /\ sq[h] = <<>>)
    => \A g \in Hosts \ {h} : sdata[h][g] = skv[g]

(* C36 as stated: in every state of a store the flat index holds exactly   *)
(* the items of all shards, and itemToShardKey sends each of those item    *)
(* IDs to the shard that holds it, so that GetItem returns an item         *)
(* together with its true shard key.                                       *)
C36_FlatIndexAndShardMapAgree ==
  \A h \in Hosts : \A i \in Items :
    /\ (sflat[h][i] /= NoVal) = (\E g \in Hosts : sdata[h][g][i] /= NoVal)
    /\ sflat[h][i] /= NoVal
       => /\ itemToShardKey[h][i] \in Hosts
          /\ sdata[h][itemToShardKey[h][i]][i] = sflat[h][i]

(* C33 as stated: the reservation watcher has released the pool lock after *)
(* every watch event it handled, a PUT whose reservation can no longer be  *)
(* read included; no event leaves the lock held                            *)
C33_WatcherReleasesTheLock ==
  \A h \in Hosts : pc[h] /= "leaked"

(* C35: on every host each ip of the pool is in exactly one of reservedIPs *)
(* and unusedIPs                                                           *)
C35_ReservedOrUnused ==
  \A h \in Hosts : \A ip \in IPs :
    (reservedIPs[h][ip] /= NoRes) <=> (unusedIPs[h][ip] = Absent)

(* C35 witness: a host has handled the DELETE event of an ip it held as   *)
(* reserved after another host had reserved it, and holds it as unused     *)
C35_MovedBackToUnused ==
  \E h \in Hosts : \E ip \in IPs :
    /\ pc[h] = "idle"
    /\ watchQ[h] = <<>>
    /\ call[h].op = "none"
    /\ kv[ip] = NoRes
    /\ holders[ip] = <<>>
    /\ unusedIPs[h][ip] = Fresh
    /\ reservedIPs[h][ip] = NoRes
    /\ \E g \in Hosts \ {h} : call[g].op = "release" /\ call[g].ok /\ call[g].ip = ip

(* C40 as stated: a Release whose transaction did not succeed (by-service  *)
(* or list entry not matching the given serviceID and fwmark) has returned *)
(* an error, and a Release that returned nil has deleted both keys         *)
C40_FailedReleaseReturnsError ==
  \A h \in Hosts :
    (fpc[h] = "ret" /\ fcall[h].op = "Release")
      => (fcall[h].ok <=> fcall[h].Succeeded)

(* C38 as stated: OnInitialized is raised once for each time the service  *)
(* goes from not initialized to initialized, also when SetEndpointMode and *)
(* SetNetworks run at the same time: the event is never raised more often  *)
(* than the service became initialized, and once the setters have returned *)
(* it was raised exactly as often                                          *)
C38_OnInitializedOncePerTransition ==
  /\ initOwed >= 0
  /\ (\A op \in DOMAIN svpending : svpending[op].op = "none") => initOwed = 0

(* C39 as stated: on an initialized service SetVIPs has raised             *)
(* OnVIPsChanged exactly when the new VIP map differs from the stored one, *)
(* and SetNetworks has raised OnNetworksChanged exactly when the networks  *)
(* or the ipamVIPs differ from the stored ones                             *)
C39_ChangeEventIffDifferent ==
  /\ (svlast.op = "SetVIPs" /\ svlast.initialized)
       => (("OnVIPsChanged" \in svlast.raised) <=> svlast.differs)
  /\ (svlast.op = "SetNetworks" /\ svlast.wasInitialized /\ svlast.initialized)
       => (("OnNetworksChanged" \in svlast.raised) <=> svlast.differs)

(* C34 as stated: a host has at most one Network object, with its VXLAN    *)
(* daemon, for each flannelID, also when RequestPool and a callback of the *)
(* networks store call getOrCreateNetwork for the flannelID at the same    *)
(* time                                                                    *)
C34_OneNetworkPerFlannelID ==
  \A h \in Hosts : \A id \in FlannelIDs : Len(vnis[h][id]) <= 1

(* C37 as stated: two networks that a host has at the same time were not   *)
(* given the same VNI                                                      *)
C37_NoTwoNetworksWithOneVNI ==
  \A h \in Hosts : \A i, j \in FlannelIDs :
    (i /= j /\ networks[h][i] /= NoSubnet /\ networks[h][j] /= NoSubnet)
      => vnis[h][i][Len(vnis[h][i])] /= vnis[h][j][Len(vnis[h][j])]

====
